---- MODULE Spec2Model ----
(***************************************************************************)
(* ZipUp archiver: the XOR stream wrapper and container opener             *)
(* (arc_utils.py) and the archive operations of the Archiver frame         *)
(* (gui.py, version 1.3.2).                                                *)
(*                                                                         *)
(* Strings are sequences of character codes, byte strings are sequences    *)
(* of integers in 0..255.                                                  *)
(***************************************************************************)
EXTENDS Integers, Sequences, FiniteSets, TLC

\* ------------------------------------------------------------------------
\* Bounds of the model
\* ------------------------------------------------------------------------
MaxPathLen == 3
MaxEntries == 2

\* ------------------------------------------------------------------------
\* Characters
\* ------------------------------------------------------------------------
Slash == 47
Dot == 46

\* ".." : the display name of the synthetic up row
UpRow == <<Dot, Dot>>

\* ------------------------------------------------------------------------
\* String helpers (Python str semantics)
\* ------------------------------------------------------------------------
SeqsUpTo(S, n) == UNION {[1..k -> S] : k \in 0..n}

\* str.startswith
StartsWith(s, p) == Len(s) >= Len(p) /\ SubSeq(s, 1, Len(p)) = p

\* str.endswith
EndsWith(s, p) == Len(s) >= Len(p) /\ SubSeq(s, Len(s) - Len(p) + 1, Len(s)) = p

\* s[n:]
DropFirst(s, n) == SubSeq(s, n + 1, Len(s))

\* position of the first '/' in s, 0 when there is none
FirstSlash(s) ==
    IF \E i \in 1..Len(s) : s[i] = Slash
    THEN CHOOSE i \in 1..Len(s) : s[i] = Slash /\ \A j \in 1..(i - 1) : s[j] # Slash
    ELSE 0

\* rel.split('/', 1)[0]
SplitTop(rel) == IF FirstSlash(rel) = 0 THEN rel ELSE SubSeq(rel, 1, FirstSlash(rel) - 1)

\* len(rel.split('/', 1))
SplitCount(rel) == IF FirstSlash(rel) = 0 THEN 1 ELSE 2

HasSlashIn(s) == \E i \in 1..Len(s) : s[i] = Slash

\* str.lower on one character, and on a string
LowerCh(c) == IF c >= 65 /\ c <= 90 THEN c + 32 ELSE c
Lower(s) == [i \in 1..Len(s) |-> LowerCh(s[i])]

\* s < t in Python's string ordering (code points, lexicographic)
StrLess(s, t) ==
    \E k \in 0..Len(s) :
        /\ k <= Len(t)
        /\ SubSeq(s, 1, k) = SubSeq(t, 1, k)
        /\ \/ k = Len(s) /\ k < Len(t)
           \/ k < Len(s) /\ k < Len(t) /\ s[k + 1] < t[k + 1]

\* os.path.join(a, b) on posix
PathJoin(a, b) ==
    IF Len(b) > 0 /\ b[1] = Slash THEN b
    ELSE IF a = <<>> \/ a[Len(a)] = Slash THEN a \o b
    ELSE a \o <<Slash>> \o b

\* ------------------------------------------------------------------------
\* arc_utils.py : the XOR stream wrapper
\* ------------------------------------------------------------------------
VARIABLES
    x_key,      \* XORFile._key
    x_base,     \* the bytes of the underlying file (XORFile._base)
    x_pos,      \* the underlying file's position
    x_plain,    \* what the caller wrote at each offset (Hole where nothing was written)
    x_ppos,     \* position of a raw stream driven by the same seek/read/write calls
    x_ret       \* the last call and what it returned

xvars == <<x_key, x_base, x_pos, x_plain, x_ppos, x_ret>>

\* the session state of the Archiver frame (gui.py) and the files it touches
VARIABLES
    archive_name,     \* Archiver.archive_name
    current_folder,   \* Archiver.current_folder
    zip_password,     \* Archiver.zip_password (NoPwd for None)
    rows,             \* the rows of list_ctrl
    fs,               \* the files on disk, by path
    pc,               \* the step the running handler is at, "idle" between user actions
    loc,              \* the running handler's local variables
    result,           \* what the last finished handler reported
    orig,             \* the files and the cached password when the running handler began
    ops               \* how many handlers that touch the archive have begun

svars == <<archive_name, current_folder, zip_password, rows, fs, pc, loc, result, orig, ops>>

vars == <<xvars, svars>>

ARC_KEY == 90
MaxFileLen == 3
Hole == -1
Bytes == 0..255
ByteSamples == {0, 1, ARC_KEY, 255}

Min(a, b) == IF a <= b THEN a ELSE b
Max(a, b) == IF a >= b THEN a ELSE b

\* a + b modulo 256: an additive cipher, not its own inverse
AddByte(a, b) == (a + b) % 256

\* b ^ key on 8-bit values
RECURSIVE XorByte(_, _)
XorByte(a, b) ==
    IF a = 0 /\ b = 0 THEN 0
    ELSE (((a % 2) + (b % 2)) % 2) + 2 * XorByte(a \div 2, b \div 2)

\* a transform whose key depends on the position in the chunk
XorBytesChained(data, k) == [i \in 1..Len(data) |-> XorByte(data[i], (k + i) % 256)]

\* bytes(b ^ self._key for b in data)
XorBytes(data, k) == [i \in 1..Len(data) |-> XorByte(data[i], k)]

\* io file: write d at position p (a gap past the end reads as zero bytes)
BaseWriteAt(f, p, d) ==
    [i \in 1..Max(Len(f), p + Len(d)) |->
        IF i > p /\ i <= p + Len(d) THEN d[i - p]
        ELSE IF i <= Len(f) THEN f[i] ELSE 0]

\* io file: read(n) at position p; n < 0 reads to the end
BaseReadAt(f, p, n) ==
    IF p >= Len(f) THEN <<>>
    ELSE SubSeq(f, p + 1, IF n < 0 THEN Len(f) ELSE Min(Len(f), p + n))

\* io file: seek(offset, whence); the new position, or -1 when it raises
BaseSeekTo(f, p, offset, whence) ==
    LET t == IF whence = 0 THEN offset
             ELSE IF whence = 1 THEN p + offset
             ELSE Len(f) + offset
    IN IF t < 0 THEN -1 ELSE t

\* the caller's view of a write: records the plain bytes, holes stay holes
PlainWriteAt(pl, p, d) ==
    [i \in 1..Max(Len(pl), p + Len(d)) |->
        IF i > p /\ i <= p + Len(d) THEN d[i - p]
        ELSE IF i <= Len(pl) THEN pl[i] ELSE Hole]

\* XORFile.seek: return self._base.seek(offset, whence)
XSeekTo(f, p, offset, whence) == BaseSeekTo(f, p, offset, whence)

\* XORFile.write
XWrite(data) ==
    /\ x_pos + Len(data) <= MaxFileLen
    /\ x_base' = BaseWriteAt(x_base, x_pos, XorBytes(data, x_key))
    /\ x_pos' = x_pos + Len(data)
    /\ x_plain' = PlainWriteAt(x_plain, x_ppos, data)
    /\ x_ppos' = x_ppos + Len(data)
    /\ x_ret' = [op |-> "write", at |-> x_pos, val |-> <<>>, n |-> Len(data)]
    /\ UNCHANGED <<x_key, svars>>

\* XORFile.read
XRead(n) ==
    LET data == BaseReadAt(x_base, x_pos, n) IN
    /\ x_pos' = x_pos + Len(data)
    /\ x_ppos' = x_ppos + Len(BaseReadAt(x_plain, x_ppos, n))
    /\ x_ret' = [op |-> "read", at |-> x_pos,
                 val |-> IF data # <<>> THEN XorBytes(data, x_key) ELSE data,
                 n |-> Len(data)]
    /\ UNCHANGED <<x_key, x_base, x_plain, svars>>

\* XORFile.seek
XSeek(offset, whence) ==
    LET t == XSeekTo(x_base, x_pos, offset, whence)
        u == BaseSeekTo(x_plain, x_ppos, offset, whence) IN
    /\ t <= MaxFileLen
    /\ x_pos' = IF t < 0 THEN x_pos ELSE t
    /\ x_ppos' = IF u < 0 THEN x_ppos ELSE u
    /\ x_ret' = [op |-> "seek", at |-> x_pos, val |-> <<>>, n |-> t]
    /\ UNCHANGED <<x_key, x_base, x_plain, svars>>

\* XORFile.tell
XTell ==
    /\ x_ret' = [op |-> "tell", at |-> x_pos, val |-> <<>>, n |-> x_pos]
    /\ UNCHANGED <<x_key, x_base, x_pos, x_plain, x_ppos, svars>>

XorIdle ==
    /\ x_key = ARC_KEY
    /\ x_base = <<>>
    /\ x_pos = 0
    /\ x_plain = <<>>
    /\ x_ppos = 0
    /\ x_ret = [op |-> "none", at |-> 0, val |-> <<>>, n |-> 0]

\* XORFile(base, key) over a fresh file
XorInit ==
    /\ x_key \in Bytes
    /\ x_base = <<>>
    /\ x_pos = 0
    /\ x_plain = <<>>
    /\ x_ppos = 0
    /\ x_ret = [op |-> "none", at |-> 0, val |-> <<>>, n |-> 0]

\* one byte written through the wrapper, then read back from the start
CipherNext ==
    \/ \E b \in Bytes : x_base = <<>> /\ XWrite(<<b>>)
    \/ x_ret.op = "write" /\ XSeek(0, 0)
    \/ x_ret.op = "seek" /\ XRead(-1)

KeySamples == {0, 1, ARC_KEY, 128, 255}

\* XORFile(base, key) over a fresh file, a few keys
XorInitSampled == XorInit /\ x_key \in KeySamples

XorNext ==
    \/ \E data \in SeqsUpTo(ByteSamples, 2) \ {<<>>} : XWrite(data)
    \/ \E n \in {-1, 1, 2} : XRead(n)
    \/ \E offset \in (0 - MaxFileLen)..MaxFileLen, whence \in 0..2 : XSeek(offset, whence)
    \/ XTell

\* ------------------------------------------------------------------------
\* gui.py : the session state of the Archiver frame and the files it touches
\* ------------------------------------------------------------------------
MaxOps == 2
NoPwd == 0
NoFile == [kind |-> "nofile"]
NoLoc == [h |-> "none"]
NoResult == [h |-> "none", ok |-> TRUE, msg |-> "none", at |-> "none"]

\* the frame after __init__: no archive open
SessIdle ==
    /\ archive_name = <<>>
    /\ current_folder = <<>>
    /\ zip_password = NoPwd
    /\ rows = <<>>
    /\ fs = <<>>
    /\ pc = "idle"
    /\ loc = NoLoc
    /\ result = NoResult
    /\ orig = [fs |-> <<>>, pwd |-> NoPwd]
    /\ ops = 0

\* ------------------------------------------------------------------------
\* Files and containers
\* ------------------------------------------------------------------------
DotZip == <<46, 122, 105, 112>>
DotArc == <<46, 97, 114, 99>>
DotTar == <<46, 116, 97, 114>>
DotTmp == <<46, 116, 109, 112>>
Stem == <<120>>

\* '.archivator_comment.txt'
Sentinel == <<46, 97, 114, 99, 104, 105, 118, 97, 116, 111, 114, 95,
              99, 111, 109, 109, 101, 110, 116, 46, 116, 120, 116>>

ArchiveNames == {Stem \o DotZip, Stem \o DotArc, Stem \o DotTar}
TmpOf(path) == path \o DotTmp
FsPaths == ArchiveNames \cup {TmpOf(n) : n \in ArchiveNames}

\* path.endswith('.arc'), the case of the letters kept
IsArcCased(path) == EndsWith(path, DotArc)

\* path.lower().endswith('.arc')
IsArc(path) == EndsWith(Lower(path), DotArc)

\* Archiver._is_zip_based
IsZipBased(name) == EndsWith(Lower(name), DotZip) \/ EndsWith(Lower(name), DotArc)

\* archive_name.lower().endswith('.tar')
IsTarName(name) == EndsWith(Lower(name), DotTar)

\* one stored entry: a ZipInfo with its payload, or a TarInfo with its payload.
\* key is the password the payload is encrypted under (NoPwd: not encrypted),
\* aes tells an AES payload from a legacy ZipCrypto one, isdir is TarInfo.isdir().
Entry(name, data, key, aes, isdir) ==
    [name |-> name, data |-> data, key |-> key, aes |-> aes, isdir |-> isdir]

PlainEntry(name, data) == Entry(name, data, NoPwd, FALSE, FALSE)

\* a container file: complete once its closing record has been written
File(kind, xored, complete, entries, comment) ==
    [kind |-> kind, xored |-> xored, complete |-> complete,
     entries |-> entries, comment |-> comment]

Names(entries) == [i \in 1..Len(entries) |-> entries[i].name]
NameSet(entries) == {entries[i].name : i \in 1..Len(entries)}

\* open_zip(path, 'r') on the file f found at path: it opens and parses as a
\* ZIP container
ZipParses(f, path) ==
    /\ f # NoFile
    /\ f.kind = "zip"
    /\ f.complete
    /\ f.xored = IsArc(path)

ZipReadable(path) == ZipParses(fs[path], path)

\* tarfile.open(path, 'r') on the file f found at path
TarParses(f) ==
    /\ f # NoFile
    /\ f.kind = "tar"
    /\ f.complete

TarReadable(path) == TarParses(fs[path])

\* ------------------------------------------------------------------------
\* gui.py : update_file_list
\* ------------------------------------------------------------------------
Row(name, size, is_dir) == [name |-> name, size |-> size, is_dir |-> is_dir]

\* entries[key] = value on a dict kept in insertion order
DictPut(d, r) ==
    IF \E i \in 1..Len(d) : d[i].name = r.name
    THEN [i \in 1..Len(d) |-> IF d[i].name = r.name THEN r ELSE d[i]]
    ELSE Append(d, r)

\* if folder_key not in entries: entries[folder_key] = ("", None, True)
DictPutFolder(d, key) ==
    IF \E i \in 1..Len(d) : d[i].name = key THEN d ELSE Append(d, Row(key, -1, TRUE))

\* the whole remainder up to its last '/' taken as the top segment
SplitTopLast(rel) ==
    IF FirstSlash(rel) = 0 THEN rel
    ELSE SubSeq(rel, 1, (CHOOSE i \in 1..Len(rel) :
                            rel[i] = Slash /\ \A j \in (i + 1)..Len(rel) : rel[j] # Slash) - 1)

\* parts = rel.split('/', 1); top = parts[0]
TopOf(rel) == SplitTop(rel)

\* the loop body of the zip branch for one ZipInfo
ProjectZipEntry(d, e, prefix) ==
    IF ~StartsWith(e.name, prefix) THEN d
    ELSE LET rel == DropFirst(e.name, Len(prefix)) IN
         IF rel = <<>> THEN d
         ELSE IF SplitCount(rel) = 1
              THEN DictPut(d, Row(TopOf(rel), Len(e.data), FALSE))
              ELSE DictPutFolder(d, TopOf(rel) \o <<Slash>>)

\* the loop body of the tar branch for one TarInfo
ProjectTarEntry(d, e, prefix) ==
    IF ~StartsWith(e.name, prefix) THEN d
    ELSE LET rel == DropFirst(e.name, Len(prefix)) IN
         IF rel = <<>> THEN d
         ELSE IF SplitCount(rel) = 1 /\ ~e.isdir
              THEN DictPut(d, Row(TopOf(rel), Len(e.data), FALSE))
              ELSE DictPutFolder(d, TopOf(rel) \o <<Slash>>)

RECURSIVE ProjectFrom(_, _, _, _, _)
ProjectFrom(entries, i, prefix, tar, d) ==
    IF i > Len(entries) THEN d
    ELSE ProjectFrom(entries, i + 1, prefix, tar,
                     IF tar THEN ProjectTarEntry(d, entries[i], prefix)
                     ELSE ProjectZipEntry(d, entries[i], prefix))

\* a case-sensitive sort key
SortKeyLessCased(r1, r2) ==
    \/ r1.is_dir /\ ~r2.is_dir
    \/ r1.is_dir = r2.is_dir /\ StrLess(r1.name, r2.name)

\* key=lambda x: (not x[1][2], x[0].lower()) : r1's key is less than r2's
SortKeyLess(r1, r2) ==
    \/ r1.is_dir /\ ~r2.is_dir
    \/ r1.is_dir = r2.is_dir /\ StrLess(Lower(r1.name), Lower(r2.name))

\* r put into an already sorted list, after every row whose key is not greater
InsertSorted(sorted, r) ==
    LET k == Cardinality({i \in 1..Len(sorted) : ~SortKeyLess(r, sorted[i])}) IN
    SubSeq(sorted, 1, k) \o <<r>> \o SubSeq(sorted, k + 1, Len(sorted))

\* sorted(entries.items(), key=...) : a stable sort
RECURSIVE SortRows(_)
SortRows(d) ==
    IF d = <<>> THEN <<>>
    ELSE InsertSorted(SortRows(SubSeq(d, 1, Len(d) - 1)), d[Len(d)])

\* the rows update_file_list inserts when f is the file found at name
UpdateFileList(f, name, prefix) ==
    LET up == IF prefix # <<>> THEN <<Row(UpRow, -1, FALSE)>> ELSE <<>> IN
    IF IsZipBased(name)
    THEN IF ZipParses(f, name)
         THEN up \o SortRows(ProjectFrom(f.entries, 1, prefix, FALSE, <<>>))
         ELSE <<>>
    ELSE IF IsTarName(name)
    THEN IF TarParses(f)
         THEN up \o SortRows(ProjectFrom(f.entries, 1, prefix, TRUE, <<>>))
         ELSE <<>>
    ELSE up

\* update_file_list called on its own (the view refresh after on_select_archive
\* and after navigation)
RefreshView ==
    /\ pc = "idle"
    /\ archive_name # <<>>
    /\ rows' = UpdateFileList(fs[archive_name], archive_name, current_folder)
    /\ result' = [h |-> "update_file_list", ok |-> TRUE, msg |-> "none", at |-> "done"]
    /\ UNCHANGED <<archive_name, current_folder, zip_password, fs, pc, loc, orig, ops, xvars>>

\* ------------------------------------------------------------------------
\* gui.py : pieces shared by the handlers
\* ------------------------------------------------------------------------
Result(h, ok, msg, at) == [h |-> h, ok |-> ok, msg |-> msg, at |-> at]

\* the handler returns: back to the event loop
Finish(h, ok, msg, at) ==
    /\ pc' = "idle"
    /\ loc' = NoLoc
    /\ result' = Result(h, ok, msg, at)

\* the handler begins: remember the files and the cached password it found
Remember ==
    /\ ops < MaxOps
    /\ orig' = [fs |-> fs, pwd |-> zip_password]
    /\ ops' = ops + 1

\* archive.read(name) / archive.extract: how a ZIP payload decodes under pwd
ReadOutcome(e, pwd) ==
    IF e.key = NoPwd THEN "ok"
    ELSE IF pwd = NoPwd THEN "password_required"
    ELSE IF e.aes THEN "not_implemented"
    ELSE IF pwd = e.key THEN "ok"
    ELSE "bad_password"

\* ZipFile.getinfo(name): the last entry stored under the name
LastNamed(entries, name) ==
    entries[CHOOSE i \in 1..Len(entries) :
                /\ entries[i].name = name
                /\ \A j \in (i + 1)..Len(entries) : entries[j].name # name]

\* every payload the handler reads decodes under pwd
AllDecode(entries, kept, pwd) ==
    \A i \in 1..Len(kept) :
        EndsWith(kept[i].name, <<Slash>>)
            \/ ReadOutcome(LastNamed(entries, kept[i].name), pwd) = "ok"

\* the entries a rewrite loop writes with writestr: directory markers as
\* zero-length entries, the others with the payload read under their name
Rewritten(entries, kept, key, aes) ==
    [i \in 1..Len(kept) |->
        IF EndsWith(kept[i].name, <<Slash>>)
        THEN Entry(kept[i].name, <<>>, key, aes, FALSE)
        ELSE Entry(kept[i].name, LastNamed(entries, kept[i].name).data, key, aes, FALSE)]

\* open(path, 'w+b') under a ZipFile or TarFile in mode 'w': an empty file
\* whose closing record is still to come
Truncated(kind, path) == File(kind, IsArc(path) /\ kind = "zip", FALSE, <<>>, <<>>)

\* what is on disk after a write loop over out: all of it and the closing
\* record, or the first k entries, with or without the closing record
Written(f, out, k, closed) == [f EXCEPT !.entries = SubSeq(out, 1, k), !.complete = closed]

\* ------------------------------------------------------------------------
\* gui.py : delete_selected_file
\* ------------------------------------------------------------------------
\* the first lines up to the confirmation box
DeleteBegin ==
    /\ pc = "idle"
    /\ \E sel \in (SUBSET (1..Len(rows))) \ {{}} :
        \E yes \in BOOLEAN :
            LET selected == {PathJoin(current_folder, rows[i].name) : i \in sel} IN
            /\ Remember
            /\ IF ~yes
               THEN Finish("delete", TRUE, "cancelled", "confirm")
               ELSE /\ pc' = IF IsZipBased(archive_name) THEN "delete_zip_read"
                             ELSE "delete_tar_open"
                    /\ loc' = [h |-> "delete", selected |-> selected]
                    /\ UNCHANGED result
    /\ UNCHANGED <<archive_name, current_folder, zip_password, rows, fs, xvars>>

\* with open_zip(self.archive_name, 'r'): entries, data
DeleteZipRead ==
    /\ pc = "delete_zip_read"
    /\ \E io_ok \in BOOLEAN :
        LET all == fs[archive_name].entries
            kept == SelectSeq(all, LAMBDA e : e.name \notin loc.selected) IN
        IF io_ok /\ ZipReadable(archive_name) /\ AllDecode(all, kept, NoPwd)
        THEN /\ pc' = "delete_zip_open"
             /\ loc' = loc @@ [out |-> Rewritten(all, kept, NoPwd, FALSE)]
             /\ UNCHANGED result
        ELSE Finish("delete", FALSE, "error", "read")
    /\ UNCHANGED <<archive_name, current_folder, zip_password, rows, fs, orig, ops, xvars>>

\* with open_zip(self.archive_name, 'w'): the path the zip branch rewrites into
DeleteZipTarget(name) == name

\* open_zip(..., 'w') opens the file with 'w+b'
DeleteZipOpen ==
    /\ pc = "delete_zip_open"
    /\ \E io_ok \in BOOLEAN :
        IF io_ok
        THEN /\ fs' = [fs EXCEPT ![DeleteZipTarget(archive_name)] =
                          Truncated("zip", DeleteZipTarget(archive_name))]
             /\ pc' = "delete_zip_write"
             /\ UNCHANGED <<loc, result>>
        ELSE /\ Finish("delete", FALSE, "error", "open")
             /\ UNCHANGED fs
    /\ UNCHANGED <<archive_name, current_folder, zip_password, rows, orig, ops, xvars>>

\* the writestr loop, the close of the container, the dialog and the refresh
DeleteZipWrite ==
    /\ pc = "delete_zip_write"
    /\ \E k \in 0..Len(loc.out), closed \in BOOLEAN :
        LET t == DeleteZipTarget(archive_name) IN
        /\ fs' = [fs EXCEPT ![t] = Written(fs[t], loc.out, k, closed)]
        /\ IF k = Len(loc.out) /\ closed
           THEN /\ Finish("delete", TRUE, "deleted", "done")
                /\ rows' = UpdateFileList(fs'[archive_name], archive_name, current_folder)
           ELSE /\ Finish("delete", FALSE, "error", "write")
                /\ UNCHANGED rows
    /\ UNCHANGED <<archive_name, current_folder, zip_password, orig, ops, xvars>>

\* with tarfile.open(name, 'r') as archive, tarfile.open(name + '.tmp', 'w')
DeleteTarOpen ==
    /\ pc = "delete_tar_open"
    /\ \E r_ok \in BOOLEAN, w_ok \in BOOLEAN :
        IF r_ok /\ IsTarName(archive_name) /\ TarReadable(archive_name)
        THEN IF w_ok
             THEN /\ fs' = [fs EXCEPT ![TmpOf(archive_name)] = Truncated("tar", TmpOf(archive_name))]
                  /\ pc' = "delete_tar_write"
                  /\ loc' = loc @@ [out |-> SelectSeq(fs[archive_name].entries,
                                                        LAMBDA e : e.name \notin loc.selected)]
                  /\ UNCHANGED result
             ELSE /\ Finish("delete", FALSE, "error", "open")
                  /\ UNCHANGED fs
        ELSE /\ Finish("delete", FALSE, "error", "read")
             /\ UNCHANGED fs
    /\ UNCHANGED <<archive_name, current_folder, zip_password, rows, orig, ops, xvars>>

\* the addfile loop and the close of both archives
DeleteTarWrite ==
    /\ pc = "delete_tar_write"
    /\ \E k \in 0..Len(loc.out), closed \in BOOLEAN :
        LET t == TmpOf(archive_name) IN
        /\ fs' = [fs EXCEPT ![t] = Written(fs[t], loc.out, k, closed /\ k = Len(loc.out))]
        /\ IF k = Len(loc.out) /\ closed
           THEN /\ pc' = "delete_tar_replace"
                /\ UNCHANGED <<loc, result>>
           ELSE Finish("delete", FALSE, "error", "write")
    /\ UNCHANGED <<archive_name, current_folder, zip_password, rows, orig, ops, xvars>>

\* os.replace(name + '.tmp', name), the dialog and the refresh
DeleteTarReplace ==
    /\ pc = "delete_tar_replace"
    /\ \E io_ok \in BOOLEAN :
        IF io_ok
        THEN /\ fs' = [fs EXCEPT ![archive_name] = fs[TmpOf(archive_name)],
                                 ![TmpOf(archive_name)] = NoFile]
             /\ Finish("delete", TRUE, "deleted", "done")
             /\ rows' = UpdateFileList(fs'[archive_name], archive_name, current_folder)
        ELSE /\ Finish("delete", FALSE, "error", "replace")
             /\ UNCHANGED <<fs, rows>>
    /\ UNCHANGED <<archive_name, current_folder, zip_password, orig, ops, xvars>>

\* ------------------------------------------------------------------------
\* gui.py : on_rename_file
\* ------------------------------------------------------------------------
Space == 32

\* str.rstrip(c)
RECURSIVE RStrip(_, _)
RStrip(s, c) == IF s # <<>> /\ s[Len(s)] = c THEN RStrip(SubSeq(s, 1, Len(s) - 1), c) ELSE s

\* str.lstrip(c)
RECURSIVE LStrip(_, _)
LStrip(s, c) == IF s # <<>> /\ s[1] = c THEN LStrip(Tail(s), c) ELSE s

\* str.strip() of blanks
Strip(s) == LStrip(RStrip(s, Space), Space)

\* what the user may type into the rename box
RenameInputs == {<<97>>, <<66>>, <<66, Space>>}

\* the name an entry is written under: the prefix substituted for a folder,
\* the whole name for a file
Renamed(name, is_dir, old_full, new_full) ==
    IF is_dir
    THEN IF StartsWith(name, old_full) THEN new_full \o DropFirst(name, Len(old_full)) ELSE name
    ELSE IF name = old_full THEN new_full ELSE name

\* the lines up to old_full / new_full
RenameBegin ==
    /\ pc = "idle"
    /\ archive_name # <<>>
    /\ \E sel \in 1..Len(rows), typed \in RenameInputs, ok_pressed \in BOOLEAN :
        LET old_display == rows[sel].name
            is_dir == EndsWith(old_display, <<Slash>>)
            stripped == Strip(typed)
            new_input == IF is_dir /\ ~EndsWith(stripped, <<Slash>>) THEN stripped \o <<Slash>>
                         ELSE IF ~is_dir /\ EndsWith(stripped, <<Slash>>) THEN RStrip(stripped, Slash)
                         ELSE stripped
        IN
        /\ Remember
        /\ IF old_display = UpRow \/ old_display = <<>> \/ ~ok_pressed
              \/ new_input = <<>> \/ new_input = old_display
           THEN Finish("rename", TRUE, "cancelled", "input")
           ELSE /\ pc' = IF IsZipBased(archive_name) THEN "rename_zip_read"
                         ELSE IF IsTarName(archive_name) THEN "rename_tar_open"
                         ELSE "rename_unsupported"
                /\ loc' = [h |-> "rename", is_dir |-> is_dir,
                           old_full |-> PathJoin(current_folder, old_display),
                           new_full |-> PathJoin(current_folder, new_input)]
                /\ UNCHANGED result
    /\ UNCHANGED <<archive_name, current_folder, zip_password, rows, fs, xvars>>

\* with open_zip(self.archive_name, 'r'): entries, data_map; the collision check
RenameZipRead ==
    /\ pc = "rename_zip_read"
    /\ \E io_ok \in BOOLEAN :
        LET all == fs[archive_name].entries IN
        IF io_ok /\ ZipReadable(archive_name) /\ AllDecode(all, all, NoPwd)
        THEN IF loc.new_full \in NameSet(all)
             THEN Finish("rename", FALSE, "exists", "check")
             ELSE /\ pc' = "rename_zip_open"
                  /\ loc' = loc @@ [out |->
                        [i \in 1..Len(all) |->
                            [Rewritten(all, all, NoPwd, FALSE)[i] EXCEPT
                                !.name = Renamed(all[i].name, loc.is_dir,
                                                 loc.old_full, loc.new_full)]]]
                  /\ UNCHANGED result
        ELSE Finish("rename", FALSE, "error", "read")
    /\ UNCHANGED <<archive_name, current_folder, zip_password, rows, fs, orig, ops, xvars>>

\* with open_zip(self.archive_name, 'w'): the path the zip branch rewrites into
RenameZipTarget(name) == name

\* open_zip(..., 'w') opens the file with 'w+b'
RenameZipOpen ==
    /\ pc = "rename_zip_open"
    /\ \E io_ok \in BOOLEAN :
        IF io_ok
        THEN /\ fs' = [fs EXCEPT ![RenameZipTarget(archive_name)] =
                          Truncated("zip", RenameZipTarget(archive_name))]
             /\ pc' = "rename_zip_write"
             /\ UNCHANGED <<loc, result>>
        ELSE /\ Finish("rename", FALSE, "error", "open")
             /\ UNCHANGED fs
    /\ UNCHANGED <<archive_name, current_folder, zip_password, rows, orig, ops, xvars>>

\* the writestr loop, the close of the container, the dialog and the refresh
RenameZipWrite ==
    /\ pc = "rename_zip_write"
    /\ \E k \in 0..Len(loc.out), closed \in BOOLEAN :
        LET t == RenameZipTarget(archive_name) IN
        /\ fs' = [fs EXCEPT ![t] = Written(fs[t], loc.out, k, closed)]
        /\ IF k = Len(loc.out) /\ closed
           THEN /\ Finish("rename", TRUE, "renamed", "done")
                /\ rows' = UpdateFileList(fs'[archive_name], archive_name, current_folder)
           ELSE /\ Finish("rename", FALSE, "error", "write")
                /\ UNCHANGED rows
    /\ UNCHANGED <<archive_name, current_folder, zip_password, orig, ops, xvars>>

\* with tarfile.open(name, 'r') as archive, tarfile.open(temp_path, 'w')
RenameTarOpen ==
    /\ pc = "rename_tar_open"
    /\ \E r_ok \in BOOLEAN, w_ok \in BOOLEAN :
        IF r_ok /\ IsTarName(archive_name) /\ TarReadable(archive_name)
        THEN IF w_ok
             THEN /\ fs' = [fs EXCEPT ![TmpOf(archive_name)] = Truncated("tar", TmpOf(archive_name))]
                  /\ pc' = "rename_tar_write"
                  /\ loc' = loc @@ [out |->
                        [i \in 1..Len(fs[archive_name].entries) |->
                            [fs[archive_name].entries[i] EXCEPT
                                !.name = Renamed(@, loc.is_dir, loc.old_full, loc.new_full)]]]
                  /\ UNCHANGED result
             ELSE /\ Finish("rename", FALSE, "error", "open")
                  /\ UNCHANGED fs
        ELSE /\ Finish("rename", FALSE, "error", "read")
             /\ UNCHANGED fs
    /\ UNCHANGED <<archive_name, current_folder, zip_password, rows, orig, ops, xvars>>

\* the member loop and the close of both archives
RenameTarWrite ==
    /\ pc = "rename_tar_write"
    /\ \E k \in 0..Len(loc.out), closed \in BOOLEAN :
        LET t == TmpOf(archive_name) IN
        /\ fs' = [fs EXCEPT ![t] = Written(fs[t], loc.out, k, closed /\ k = Len(loc.out))]
        /\ IF k = Len(loc.out) /\ closed
           THEN /\ pc' = "rename_tar_replace"
                /\ UNCHANGED <<loc, result>>
           ELSE Finish("rename", FALSE, "error", "write")
    /\ UNCHANGED <<archive_name, current_folder, zip_password, rows, orig, ops, xvars>>

\* os.replace(temp_path, name), the dialog and the refresh
RenameTarReplace ==
    /\ pc = "rename_tar_replace"
    /\ \E io_ok \in BOOLEAN :
        IF io_ok
        THEN /\ fs' = [fs EXCEPT ![archive_name] = fs[TmpOf(archive_name)],
                                 ![TmpOf(archive_name)] = NoFile]
             /\ Finish("rename", TRUE, "renamed", "done")
             /\ rows' = UpdateFileList(fs'[archive_name], archive_name, current_folder)
        ELSE /\ Finish("rename", FALSE, "error", "replace")
             /\ UNCHANGED <<fs, rows>>
    /\ UNCHANGED <<archive_name, current_folder, zip_password, orig, ops, xvars>>

\* ------------------------------------------------------------------------
\* gui.py : on_comment, save_archive_comment
\* ------------------------------------------------------------------------
\* what the user may type into the comment box: nothing, or "c"
CommentInputs == {<<>>, <<99>>}

\* the dialog of on_comment
CommentBegin ==
    /\ pc = "idle"
    /\ archive_name # <<>>
    /\ \E text \in CommentInputs, ok_pressed \in BOOLEAN :
        /\ Remember
        /\ IF ~ok_pressed
           THEN Finish("comment", TRUE, "cancelled", "input")
           ELSE /\ pc' = IF IsZipBased(archive_name) THEN "comment_zip" ELSE "comment_tar_open"
                /\ loc' = [h |-> "comment", text |-> text]
                /\ UNCHANGED result
    /\ UNCHANGED <<archive_name, current_folder, zip_password, rows, fs, xvars>>

\* open_zip(path, 'a') followed by the close of the container, with the
\* comment set in between: a file that does not parse is taken as the start of
\* a new, empty container
AppendedZip(f, path, text) ==
    IF ZipParses(f, path) THEN [f EXCEPT !.comment = text]
    ELSE File("zip", IsArc(path), TRUE, <<>>, text)

\* save_archive_comment, zip branch (every exception is swallowed), then the
\* rest of on_comment
CommentZipSave ==
    /\ pc = "comment_zip"
    /\ \E io_ok \in BOOLEAN :
        /\ fs' = IF io_ok
                 THEN [fs EXCEPT ![archive_name] = AppendedZip(fs[archive_name], archive_name, loc.text)]
                 ELSE fs
        /\ Finish("comment", TRUE, "saved", IF io_ok THEN "done" ELSE "swallowed")
    /\ UNCHANGED <<archive_name, current_folder, zip_password, rows, orig, ops, xvars>>

\* save_archive_comment, tar branch: both archives opened
CommentTarOpen ==
    /\ pc = "comment_tar_open"
    /\ \E r_ok \in BOOLEAN, w_ok \in BOOLEAN :
        IF r_ok /\ IsTarName(archive_name) /\ TarReadable(archive_name)
        THEN IF w_ok
             THEN /\ fs' = [fs EXCEPT ![TmpOf(archive_name)] = Truncated("tar", TmpOf(archive_name))]
                  /\ pc' = "comment_tar_write"
                  /\ loc' = loc @@ [out |->
                        Append(SelectSeq(fs[archive_name].entries, LAMBDA e : e.name # Sentinel),
                               PlainEntry(Sentinel, loc.text))]
                  /\ UNCHANGED result
             ELSE /\ Finish("comment", FALSE, "error", "open")
                  /\ UNCHANGED fs
        ELSE /\ Finish("comment", FALSE, "error", "read")
             /\ UNCHANGED fs
    /\ UNCHANGED <<archive_name, current_folder, zip_password, rows, orig, ops, xvars>>

\* the member loop, the sentinel member and the close of both archives
CommentTarWrite ==
    /\ pc = "comment_tar_write"
    /\ \E k \in 0..Len(loc.out), closed \in BOOLEAN :
        LET t == TmpOf(archive_name) IN
        /\ fs' = [fs EXCEPT ![t] = Written(fs[t], loc.out, k, closed /\ k = Len(loc.out))]
        /\ IF k = Len(loc.out) /\ closed
           THEN /\ pc' = "comment_tar_replace"
                /\ UNCHANGED <<loc, result>>
           ELSE Finish("comment", FALSE, "error", "write")
    /\ UNCHANGED <<archive_name, current_folder, zip_password, rows, orig, ops, xvars>>

\* os.replace(temp_path, name), then the rest of on_comment
CommentTarReplace ==
    /\ pc = "comment_tar_replace"
    /\ \E io_ok \in BOOLEAN :
        IF io_ok
        THEN /\ fs' = [fs EXCEPT ![archive_name] = fs[TmpOf(archive_name)],
                                 ![TmpOf(archive_name)] = NoFile]
             /\ Finish("comment", TRUE, "saved", "done")
        ELSE /\ Finish("comment", FALSE, "error", "replace")
             /\ UNCHANGED fs
    /\ UNCHANGED <<archive_name, current_folder, zip_password, rows, orig, ops, xvars>>

\* ------------------------------------------------------------------------
\* gui.py : on_set_password, check_archive_has_password, set_archive_password
\* ------------------------------------------------------------------------
\* what the user may type into a password box: nothing, or one of two passwords
Passwords == {NoPwd, 1, 2}

\* check_archive_has_password: some entry has the encryption flag set
HasPassword(f, name) ==
    /\ name # <<>>
    /\ IsZipBased(name)
    /\ ZipParses(f, name)
    /\ \E i \in 1..Len(f.entries) : f.entries[i].key # NoPwd

\* archive.setpassword(old); archive.testzip() goes through without raising
TestZipPasses(f, name, pwd) ==
    /\ ZipParses(f, name)
    /\ \A i \in 1..Len(f.entries) : ReadOutcome(f.entries[i], pwd) = "ok"

\* on_set_password from the second dialog to the call of set_archive_password
SetPasswordAskNew(old) ==
    \E new \in Passwords, new_ok \in BOOLEAN, has_pyzipper \in BOOLEAN :
        IF ~new_ok
        THEN Finish("set_password", TRUE, "cancelled", "input")
        ELSE /\ pc' = "set_password_read"
             /\ loc' = [h |-> "set_password", old |-> old, new |-> new,
                        has_pyzipper |-> has_pyzipper, direct |-> FALSE]
             /\ UNCHANGED result

\* a guard that lets every archive through
PasswordSupportedAny(name) == TRUE

\* self.archive_name.lower().endswith('.zip')
PasswordSupported(name) == EndsWith(Lower(name), DotZip)

\* on_set_password: the guards, and the first dialog with its verification
SetPasswordBegin ==
    /\ pc = "idle"
    /\ Remember
    /\ IF archive_name = <<>>
       THEN Finish("set_password", FALSE, "no_archive", "guard")
       ELSE IF ~PasswordSupported(archive_name)
       THEN Finish("set_password", FALSE, "zip_only", "guard")
       ELSE IF HasPassword(fs[archive_name], archive_name)
       THEN \E old \in Passwords, old_ok \in BOOLEAN :
               IF ~old_ok
               THEN Finish("set_password", TRUE, "cancelled", "input")
               ELSE IF ~TestZipPasses(fs[archive_name], archive_name, old)
               THEN Finish("set_password", FALSE, "wrong_current", "verify")
               ELSE SetPasswordAskNew(old)
       ELSE SetPasswordAskNew(NoPwd)
    /\ UNCHANGED <<archive_name, current_folder, zip_password, rows, fs, xvars>>

\* on_set_password assigns zip_password only when set_archive_password returned True
CachedAfterFailure(old, new) == old

\* the except branch of set_archive_password: the temporary file is removed,
\* False is returned and on_set_password shows the error
SetPasswordFailed(files, at) ==
    /\ fs' = [files EXCEPT ![TmpOf(archive_name)] = NoFile]
    /\ zip_password' = CachedAfterFailure(zip_password, loc.new)
    /\ Finish("set_password", FALSE, "set_failed", at)

\* with open_zip(self.archive_name, 'r') as old_archive: entries, data_map
SetPasswordRead ==
    /\ pc = "set_password_read"
    /\ \E io_ok \in BOOLEAN :
        LET all == fs[archive_name].entries IN
        IF io_ok /\ ZipReadable(archive_name) /\ AllDecode(all, all, loc.old)
        THEN /\ pc' = "set_password_open"
             /\ loc' = loc @@ [out |->
                   IF loc.has_pyzipper /\ loc.new # NoPwd
                   THEN Rewritten(all, all, loc.new, TRUE)
                   ELSE Rewritten(all, all, NoPwd, FALSE)]
             /\ UNCHANGED <<fs, result, zip_password>>
        ELSE SetPasswordFailed(fs, "read")
    /\ UNCHANGED <<archive_name, current_folder, rows, orig, ops, xvars>>

\* the path the new container is written to, were it the archive itself
SetPasswordTargetInPlace(name) == name

\* temp_archive = self.archive_name + '.tmp'
SetPasswordTarget(name) == TmpOf(name)

\* pyzipper.AESZipFile(temp_archive, 'w') or open_zip(temp_archive, 'w')
SetPasswordOpen ==
    /\ pc = "set_password_open"
    /\ \E io_ok \in BOOLEAN :
        IF io_ok
        THEN /\ fs' = [fs EXCEPT ![SetPasswordTarget(archive_name)] =
                          Truncated("zip", SetPasswordTarget(archive_name))]
             /\ pc' = "set_password_write"
             /\ UNCHANGED <<loc, result, zip_password>>
        ELSE SetPasswordFailed(fs, "open")
    /\ UNCHANGED <<archive_name, current_folder, rows, orig, ops, xvars>>

\* the writestr loop and the close of the new container
SetPasswordWrite ==
    /\ pc = "set_password_write"
    /\ \E k \in 0..Len(loc.out), closed \in BOOLEAN :
        IF k = Len(loc.out) /\ closed
        THEN /\ fs' = [fs EXCEPT ![SetPasswordTarget(archive_name)] = Written(@, loc.out, k, TRUE)]
             /\ pc' = "set_password_move"
             /\ UNCHANGED <<loc, result, zip_password>>
        ELSE SetPasswordFailed([fs EXCEPT ![SetPasswordTarget(archive_name)] =
                                       Written(@, loc.out, k, closed)], "write")
    /\ UNCHANGED <<archive_name, current_folder, rows, orig, ops, xvars>>

\* shutil.move(temp_archive, self.archive_name); return True; in
\* on_set_password the cached password is updated and the dialog shown
SetPasswordMove ==
    /\ pc = "set_password_move"
    /\ \E io_ok \in BOOLEAN :
        IF io_ok
        THEN /\ fs' = [[fs EXCEPT ![archive_name] = fs[SetPasswordTarget(archive_name)]]
                          EXCEPT ![TmpOf(archive_name)] = NoFile]
             /\ zip_password' = IF loc.direct THEN zip_password ELSE loc.new
             /\ Finish("set_password", TRUE, "changed", "done")
        ELSE SetPasswordFailed(fs, "move")
    /\ UNCHANGED <<archive_name, current_folder, rows, orig, ops, xvars>>

\* set_archive_password(old_password, new_password) called on its own: its
\* first lines return False without an archive or on a name that is not
\* Zip-like
SetArchivePassword ==
    /\ pc = "idle"
    /\ Remember
    /\ \E old \in Passwords, new \in Passwords, has_pyzipper \in BOOLEAN :
        IF archive_name = <<>> \/ ~IsZipBased(archive_name)
        THEN Finish("set_password", FALSE, "set_failed", "guard")
        ELSE /\ pc' = "set_password_read"
             /\ loc' = [h |-> "set_password", old |-> old, new |-> new,
                        has_pyzipper |-> has_pyzipper, direct |-> TRUE]
             /\ UNCHANGED result
    /\ UNCHANGED <<archive_name, current_folder, zip_password, rows, fs, xvars>>

\* ------------------------------------------------------------------------
\* gui.py : on_item_double_click, the '..' row and the folder rows
\* ------------------------------------------------------------------------
\* '/'.join(current_folder.rstrip('/').split('/')[:-1]), then '/' unless empty
ParentFolder(cf) ==
    LET t == RStrip(cf, Slash)
        cut == IF HasSlashIn(t)
               THEN SubSeq(t, 1, (CHOOSE i \in 1..Len(t) :
                                     t[i] = Slash /\ \A j \in (i + 1)..Len(t) : t[j] # Slash) - 1)
               ELSE <<>>
    IN IF cut # <<>> THEN cut \o <<Slash>> ELSE cut

\* os.path.join(current_folder, item_name), then '/' unless it ends with one
ChildFolder(cf, item) ==
    LET j == PathJoin(cf, item) IN IF EndsWith(j, <<Slash>>) THEN j ELSE j \o <<Slash>>

OnItemDoubleClick ==
    /\ pc = "idle"
    /\ \E i \in 1..Len(rows) :
        /\ rows[i].name = UpRow \/ EndsWith(rows[i].name, <<Slash>>)
        /\ current_folder' =
              IF rows[i].name = UpRow
              THEN (IF current_folder # <<>> THEN ParentFolder(current_folder) ELSE current_folder)
              ELSE ChildFolder(current_folder, rows[i].name)
    /\ rows' = UpdateFileList(fs[archive_name], archive_name, current_folder')
    /\ UNCHANGED <<archive_name, zip_password, fs, pc, loc, result, orig, ops, xvars>>

\* ------------------------------------------------------------------------
\* Inputs of the projection: every short path over {'/', 'a'}, some names with
\* an upper-case letter ('B'), and the names that collide with the up row
\* ------------------------------------------------------------------------
Alphabet == {Slash, 97}
CasedNames == {<<66>>, <<66, Slash>>, <<66, 97>>, <<97, Slash, 66>>}
DotNames == {UpRow, <<97, Slash, Dot, Dot>>}
PathPool == (SeqsUpTo(Alphabet, MaxPathLen) \ {<<>>}) \cup CasedNames \cup DotNames
Prefixes == {<<>>} \cup {p \in SeqsUpTo(Alphabet, 2) : p # <<>> /\ p[Len(p)] = Slash}

\* a ZipInfo name is any string; its payload is fixed here
ZipPoolEntries == {PlainEntry(n, IF EndsWith(n, <<Slash>>) THEN <<>> ELSE <<7>>) : n \in PathPool}

\* tarfile strips the trailing slashes of a directory member's name
TarPoolEntries ==
    {Entry(n, <<7>>, NoPwd, FALSE, FALSE) : n \in PathPool}
    \cup {Entry(n, <<>>, NoPwd, FALSE, TRUE) : n \in {q \in PathPool : q[Len(q)] # Slash}}

\* the entry list {"a/b.txt", "a/c/d.txt", "e.txt"}
ExampleEntries ==
    << PlainEntry(<<97, 47, 98, 46, 116, 120, 116>>, <<7>>),
       PlainEntry(<<97, 47, 99, 47, 100, 46, 116, 120, 116>>, <<7>>),
       PlainEntry(<<101, 46, 116, 120, 116>>, <<7>>) >>

EmptyFs == [p \in FsPaths |-> NoFile]

ProjInit ==
    /\ archive_name \in {Stem \o DotZip, Stem \o DotTar}
    /\ current_folder \in Prefixes
    /\ zip_password = NoPwd
    /\ rows = <<>>
    /\ \E es \in SeqsUpTo(IF IsTarName(archive_name) THEN TarPoolEntries ELSE ZipPoolEntries,
                          MaxEntries) \cup {ExampleEntries} :
          fs = [EmptyFs EXCEPT ![archive_name] =
                   File(IF IsTarName(archive_name) THEN "tar" ELSE "zip", FALSE, TRUE, es, <<>>)]
    /\ pc = "idle"
    /\ loc = NoLoc
    /\ result = NoResult
    /\ orig = [fs |-> fs, pwd |-> NoPwd]
    /\ ops = 0

\* ------------------------------------------------------------------------
\* The session: an archive picked with on_select_archive, then user actions
\* ------------------------------------------------------------------------
NameDir == <<97, Slash>>
NameInner == <<97, Slash, 97>>
NameTop == <<66>>

\* how the entries of the archive at hand are protected
Protections == {<<NoPwd, FALSE>>, <<1, FALSE>>, <<1, TRUE>>}

ZipSessionPool(prot) ==
    {PlainEntry(NameDir, <<>>),
     Entry(NameInner, <<7>>, prot[1], prot[2], FALSE),
     Entry(NameTop, <<8, 9>>, prot[1], prot[2], FALSE)}

TarSessionPool ==
    {Entry(<<97>>, <<>>, NoPwd, FALSE, TRUE),
     PlainEntry(NameInner, <<7>>),
     PlainEntry(NameTop, <<8, 9>>)}

DistinctNames(es) == \A i, j \in 1..Len(es) : es[i].name = es[j].name => i = j

\* the archives on_select_archive may find on disk
InitFiles(name) ==
    IF IsTarName(name)
    THEN {File("tar", FALSE, TRUE, body \o tail, <<>>) :
             body \in {es \in SeqsUpTo(TarSessionPool, MaxEntries) : DistinctNames(es)},
             tail \in {<<>>, <<PlainEntry(Sentinel, <<99>>)>>}}
    ELSE UNION {{File("zip", IsArc(name), TRUE, es, c) :
                    es \in {q \in SeqsUpTo(ZipSessionPool(prot), MaxEntries) : DistinctNames(q)},
                    c \in CommentInputs} : prot \in Protections}

SessInit ==
    /\ archive_name \in ArchiveNames
    /\ current_folder = <<>>
    /\ zip_password = NoPwd
    /\ \E f \in InitFiles(archive_name) :
        /\ fs = [EmptyFs EXCEPT ![archive_name] = f]
        /\ rows = UpdateFileList(f, archive_name, <<>>)
    /\ pc = "idle"
    /\ loc = NoLoc
    /\ result = NoResult
    /\ orig = [fs |-> fs, pwd |-> NoPwd]
    /\ ops = 0

SessNext ==
    \/ OnItemDoubleClick
    \/ DeleteBegin \/ DeleteZipRead \/ DeleteZipOpen \/ DeleteZipWrite
    \/ DeleteTarOpen \/ DeleteTarWrite \/ DeleteTarReplace
    \/ RenameBegin \/ RenameZipRead \/ RenameZipOpen \/ RenameZipWrite
    \/ RenameTarOpen \/ RenameTarWrite \/ RenameTarReplace
    \/ CommentBegin \/ CommentZipSave
    \/ CommentTarOpen \/ CommentTarWrite \/ CommentTarReplace
    \/ SetPasswordBegin \/ SetPasswordRead \/ SetPasswordOpen
    \/ SetPasswordWrite \/ SetPasswordMove

\* ------------------------------------------------------------------------
\* gui.py : on_create_archive, on_add_file_or_folder, handle_drop,
\* on_create_folder
\* ------------------------------------------------------------------------
\* a handler that leaves the list as it found it
StaleRows(f, name, prefix) == rows

\* self.update_file_list() at the end of a handler
RefreshedRows(f, name, prefix) == UpdateFileList(f, name, prefix)

\* how many archives a session creates
MaxArchives == 1

\* the archives there are on disk
OnDisk == {p \in ArchiveNames : fs[p] # NoFile}

\* the empty container open_zip(name, 'w') or tarfile.open(name, 'w') leaves
\* once closed
EmptyArchive(name) ==
    File(IF IsZipBased(name) THEN "zip" ELSE "tar", IsArc(name) /\ IsZipBased(name), TRUE, <<>>, <<>>)

\* on_create_archive: the path, the empty container, the refresh
OnCreateArchive ==
    /\ pc = "idle"
    /\ \E name \in ArchiveNames, chosen \in BOOLEAN, opened \in BOOLEAN, closed \in BOOLEAN :
        IF ~chosen
        THEN /\ result' = Result("create", TRUE, "cancelled", "input")
             /\ UNCHANGED <<archive_name, current_folder, rows, fs>>
        ELSE /\ Cardinality(OnDisk \cup {name}) <= MaxArchives
             /\ archive_name' = name
             /\ current_folder' = <<>>
             /\ fs' = IF ~opened THEN fs
                      ELSE [fs EXCEPT ![name] = [EmptyArchive(name) EXCEPT !.complete = closed]]
             /\ result' = IF opened /\ closed THEN Result("create", TRUE, "created", "done")
                          ELSE Result("create", FALSE, "error", IF opened THEN "close" ELSE "open")
             /\ rows' = RefreshedRows(fs'[name], name, <<>>)
    /\ UNCHANGED <<zip_password, pc, loc, orig, ops, xvars>>

\* the container that ZipFile(..., 'a') or tarfile.open(..., 'a') appends to: a
\* file that is no ZIP container is taken as the start of a new one
AppendStart(f, name) ==
    IF IsZipBased(name)
    THEN IF ZipParses(f, name) THEN f ELSE File("zip", IsArc(name), FALSE, <<>>, <<>>)
    ELSE IF f = NoFile THEN File("tar", FALSE, FALSE, <<>>, <<>>) ELSE f

\* mode 'a' opens: tarfile refuses a file it cannot read as a TAR archive
AppendOpens(f, name) == IsZipBased(name) \/ f = NoFile \/ TarParses(f)

\* the file after the first k of the new entries were appended and the
\* container was closed, or not
Appended(f, name, new, k, closed) ==
    [AppendStart(f, name) EXCEPT !.entries = @ \o SubSeq(new, 1, k), !.complete = closed]

\* the files the user may pick: 'a' and 'B'; a folder holds 'a' and 'a/a'
AddFileNames == {<<97>>, <<66>>}
AddFolderNames == {<<97>>, <<97, Slash, 97>>}
AddData(n) == IF n = <<66>> THEN <<8, 9>> ELSE <<7>>

\* fileDialog.GetPaths() as base names, or os.walk(folder_path) as relative paths
AddSelections(option) ==
    IF option = "file"
    THEN {q \in SeqsUpTo(AddFileNames, 2) : q # <<>> /\ \A i, j \in 1..Len(q) : q[i] = q[j] => i = j}
    ELSE {q \in SeqsUpTo(AddFolderNames, 2) : \A i, j \in 1..Len(q) : q[i] = q[j] => i = j}

\* archive.write(file_path, arcname) / archive.add(file_path, arcname) per name
AddedEntries(names, prefix) ==
    [i \in 1..Len(names) |-> PlainEntry(PathJoin(prefix, names[i]), AddData(names[i]))]

\* the archive may grow by this many entries
Room(new) ==
    /\ fs[archive_name] # NoFile => Len(fs[archive_name].entries) + Len(new) <= MaxEntries
    /\ fs[archive_name] = NoFile => Len(new) <= MaxEntries

\* on_add_file_or_folder: the choice, the dialog, the append and the refresh
OnAddFileOrFolder ==
    /\ pc = "idle"
    /\ archive_name # <<>>
    /\ \E option \in {"file", "folder"}, chosen \in BOOLEAN, opened \in BOOLEAN, closed \in BOOLEAN :
        \E names \in AddSelections(option) :
            LET new == AddedEntries(names, current_folder)
                f == fs[archive_name] IN
            /\ Room(new)
            /\ \E k \in 0..Len(new) :
                IF ~chosen
                THEN /\ UNCHANGED fs
                     /\ result' = Result("add", TRUE, "cancelled", "input")
                ELSE IF ~(IsZipBased(archive_name) \/ IsTarName(archive_name))
                THEN /\ UNCHANGED fs
                     /\ result' = Result("add", TRUE, "added", "done")
                ELSE IF ~opened \/ ~AppendOpens(f, archive_name)
                THEN /\ UNCHANGED fs
                     /\ result' = Result("add", FALSE, "error", "open")
                ELSE /\ fs' = [fs EXCEPT ![archive_name] = Appended(f, archive_name, new, k, closed)]
                     /\ result' = IF k = Len(new) /\ closed
                                  THEN Result("add", TRUE, "added", "done")
                                  ELSE Result("add", FALSE, "error", "write")
    /\ rows' = RefreshedRows(fs'[archive_name], archive_name, current_folder)
    /\ Remember
    /\ UNCHANGED <<archive_name, current_folder, zip_password, pc, loc, xvars>>

\* what may be dropped on the list: the file 'B', or the folder 'a' holding the
\* file 'a'
DropItems == {"file", "folder"}

\* handle_drop: a file goes in under its base name; a folder goes into a ZIP
\* container as its files, relative to it, and into a TAR archive as a
\* directory member followed by its files
DroppedEntries(item, name, prefix) ==
    IF item = "file" THEN <<PlainEntry(PathJoin(prefix, <<66>>), AddData(<<66>>))>>
    ELSE IF IsZipBased(name) THEN <<PlainEntry(PathJoin(prefix, <<97>>), AddData(<<97>>))>>
    ELSE <<Entry(PathJoin(prefix, <<97>>), <<>>, NoPwd, FALSE, TRUE),
           PlainEntry(PathJoin(prefix, <<97, Slash, 97>>), AddData(<<97>>))>>

\* handle_drop: the append, and the refresh when nothing was raised
HandleDrop ==
    /\ pc = "idle"
    /\ \E item \in DropItems, opened \in BOOLEAN, closed \in BOOLEAN :
        LET new == DroppedEntries(item, archive_name, current_folder)
            f == IF archive_name # <<>> THEN fs[archive_name] ELSE NoFile IN
        IF archive_name = <<>>
        THEN /\ result' = Result("drop", FALSE, "no_archive", "guard")
             /\ UNCHANGED <<fs, rows>>
        ELSE /\ Room(new)
             /\ \E k \in 0..Len(new) :
                 IF ~(IsZipBased(archive_name) \/ IsTarName(archive_name))
                 THEN /\ UNCHANGED fs
                      /\ result' = Result("drop", TRUE, "dropped", "done")
                      /\ rows' = RefreshedRows(fs[archive_name], archive_name, current_folder)
                 ELSE IF ~opened \/ ~AppendOpens(f, archive_name)
                 THEN /\ UNCHANGED <<fs, rows>>
                      /\ result' = Result("drop", FALSE, "error", "open")
                 ELSE /\ fs' = [fs EXCEPT ![archive_name] = Appended(f, archive_name, new, k, closed)]
                      /\ IF k = Len(new) /\ closed
                         THEN /\ result' = Result("drop", TRUE, "dropped", "done")
                              /\ rows' = RefreshedRows(fs'[archive_name], archive_name, current_folder)
                         ELSE /\ result' = Result("drop", FALSE, "error", "write")
                              /\ UNCHANGED rows
    /\ Remember
    /\ UNCHANGED <<archive_name, current_folder, zip_password, pc, loc, xvars>>

\* what the user may type into the folder box: "a"
CreateFolderInputs == {<<97>>}

\* on_create_folder: folder_name = text + '/', appended as an empty entry
OnCreateFolder ==
    /\ pc = "idle"
    /\ \E text \in CreateFolderInputs, ok_pressed \in BOOLEAN, opened \in BOOLEAN, closed \in BOOLEAN :
        LET folder_name == text \o <<Slash>>
            new == <<PlainEntry(PathJoin(current_folder, folder_name), <<>>)>>
            f == IF archive_name # <<>> THEN fs[archive_name] ELSE NoFile IN
        IF archive_name = <<>>
        THEN /\ result' = Result("create_folder", FALSE, "no_archive", "guard")
             /\ UNCHANGED <<fs, rows>>
        ELSE IF ~ok_pressed
        THEN /\ result' = Result("create_folder", TRUE, "cancelled", "input")
             /\ UNCHANGED <<fs, rows>>
        ELSE /\ Room(new)
             /\ \E k \in 0..1 :
                 IF ~(IsZipBased(archive_name) \/ IsTarName(archive_name))
                 THEN /\ UNCHANGED fs
                      /\ result' = Result("create_folder", TRUE, "folder_created", "done")
                      /\ rows' = RefreshedRows(fs[archive_name], archive_name, current_folder)
                 ELSE IF ~opened \/ ~AppendOpens(f, archive_name)
                 THEN /\ UNCHANGED <<fs, rows>>
                      /\ result' = Result("create_folder", FALSE, "error", "open")
                 ELSE /\ fs' = [fs EXCEPT ![archive_name] = Appended(f, archive_name, new, k, closed)]
                      /\ IF k = 1 /\ closed
                         THEN /\ result' = Result("create_folder", TRUE, "folder_created", "done")
                              /\ rows' = RefreshedRows(fs'[archive_name], archive_name, current_folder)
                         ELSE /\ result' = Result("create_folder", FALSE, "error", "write")
                              /\ UNCHANGED rows
    /\ Remember
    /\ UNCHANGED <<archive_name, current_folder, zip_password, pc, loc, xvars>>

\* the frame after __init__, with the disk it may write to
EditInit ==
    /\ archive_name = <<>>
    /\ current_folder = <<>>
    /\ zip_password = NoPwd
    /\ rows = <<>>
    /\ fs = EmptyFs
    /\ pc = "idle"
    /\ loc = NoLoc
    /\ result = NoResult
    /\ orig = [fs |-> fs, pwd |-> NoPwd]
    /\ ops = 0

\* an archive is created and filled, entries are deleted and renamed, folders
\* are entered and left
EditNext ==
    \/ OnCreateArchive \/ OnAddFileOrFolder \/ HandleDrop \/ OnCreateFolder
    \/ OnItemDoubleClick
    \/ DeleteBegin \/ DeleteZipRead \/ DeleteZipOpen \/ DeleteZipWrite
    \/ DeleteTarOpen \/ DeleteTarWrite \/ DeleteTarReplace
    \/ RenameBegin \/ RenameZipRead \/ RenameZipOpen \/ RenameZipWrite
    \/ RenameTarOpen \/ RenameTarWrite \/ RenameTarReplace

\* ------------------------------------------------------------------------
\* gui.py : on_select_archive, and a session that only navigates
\* ------------------------------------------------------------------------
\* on_select_archive: a file that exists is picked, the folder is reset, the
\* status bar names the archive and the list is rebuilt
OnSelectArchive ==
    /\ pc = "idle"
    /\ \E name \in OnDisk, chosen \in BOOLEAN :
        IF ~chosen
        THEN /\ result' = Result("select", TRUE, "cancelled", "input")
             /\ UNCHANGED <<archive_name, current_folder, rows>>
        ELSE /\ archive_name' = name
             /\ current_folder' = <<>>
             /\ result' = Result("select", TRUE, "opened", "done")
             /\ rows' = UpdateFileList(fs[name], name, <<>>)
    /\ UNCHANGED <<zip_password, fs, pc, loc, orig, ops, xvars>>

\* the archives whose entry names are any short paths
NavFiles(name) ==
    {File(IF IsTarName(name) THEN "tar" ELSE "zip", IsArc(name), TRUE, es, <<>>) :
        es \in SeqsUpTo(IF IsTarName(name) THEN TarPoolEntries ELSE ZipPoolEntries, MaxEntries)}

NavInit ==
    /\ archive_name \in ArchiveNames
    /\ current_folder = <<>>
    /\ zip_password = NoPwd
    /\ \E f \in NavFiles(archive_name) :
        /\ fs = [EmptyFs EXCEPT ![archive_name] = f]
        /\ rows = UpdateFileList(f, archive_name, <<>>)
    /\ pc = "idle"
    /\ loc = NoLoc
    /\ result = NoResult
    /\ orig = [fs |-> fs, pwd |-> NoPwd]
    /\ ops = 0

NavNext == OnSelectArchive \/ OnCreateArchive \/ OnItemDoubleClick

\* ------------------------------------------------------------------------
\* An '.arc' archive and every operation that writes to it
\* ------------------------------------------------------------------------
ArcName == Stem \o DotArc

ArcInit ==
    /\ archive_name = ArcName
    /\ current_folder = <<>>
    /\ zip_password = NoPwd
    /\ \E f \in InitFiles(ArcName) :
        /\ fs = [EmptyFs EXCEPT ![ArcName] = f]
        /\ rows = UpdateFileList(f, ArcName, <<>>)
    /\ pc = "idle"
    /\ loc = NoLoc
    /\ result = NoResult
    /\ orig = [fs |-> fs, pwd |-> NoPwd]
    /\ ops = 0

ArcNext ==
    \/ OnAddFileOrFolder \/ HandleDrop \/ OnCreateFolder
    \/ DeleteBegin \/ DeleteZipRead \/ DeleteZipOpen \/ DeleteZipWrite
    \/ RenameBegin \/ RenameZipRead \/ RenameZipOpen \/ RenameZipWrite
    \/ CommentBegin \/ CommentZipSave
    \/ SetArchivePassword \/ SetPasswordRead \/ SetPasswordOpen
    \/ SetPasswordWrite \/ SetPasswordMove

\* ------------------------------------------------------------------------
\* arc_utils.py : open_zip, the file handle and the container it holds open
\* ------------------------------------------------------------------------
OpenZipModes == {"r", "w", "a"}

\* a wrapper applied on every mode but 'r'
OpenZipWrapsUnlessRead(path, mode) == IsArc(path) /\ mode # "r"

\* is_arc: fileobj = XORFile(base) in every mode, otherwise fileobj = base
OpenZipWraps(path, mode) == IsArc(path)

\* how open_zip was left: the handles it still holds
Left(ok, at, base, zf) ==
    [h |-> "open_zip", ok |-> ok, msg |-> "none", at |-> at, base |-> base, zf |-> zf]

\* base = _open_base(...): 'rb' needs the file, 'w+b' truncates it,
\* 'a' takes 'r+b' when the file exists and 'w+b' otherwise
OpenZipEnter ==
    /\ pc = "idle"
    /\ IsZipBased(archive_name)
    /\ \E mode \in OpenZipModes, io_ok \in BOOLEAN :
        LET exists == fs[archive_name] # NoFile IN
        IF io_ok /\ (mode = "r" => exists)
        THEN /\ pc' = "open_zip_construct"
             /\ loc' = [h |-> "open_zip", mode |-> mode, base |-> "open", zf |-> "none",
                        raised |-> FALSE, wrapped |-> OpenZipWraps(archive_name, mode)]
             /\ fs' = IF mode = "w" \/ ~exists
                      THEN [fs EXCEPT ![archive_name] = Truncated("zip", archive_name)]
                      ELSE fs
             /\ UNCHANGED result
        ELSE /\ pc' = "idle"
             /\ loc' = NoLoc
             /\ result' = Left(FALSE, "open", "none", "none")
             /\ UNCHANGED fs
    /\ UNCHANGED <<archive_name, current_folder, zip_password, rows, orig, ops, xvars>>

\* zf = zipfile.ZipFile(fileobj, mode, ...), before the try: in mode 'r' a file
\* that does not parse raises, and the generator is left with base open
OpenZipConstruct ==
    /\ pc = "open_zip_construct"
    /\ \E io_ok \in BOOLEAN :
        IF io_ok /\ (loc.mode = "r" => ZipReadable(archive_name))
        THEN /\ pc' = "open_zip_body"
             /\ loc' = [loc EXCEPT !.zf = "open"]
             /\ UNCHANGED result
        ELSE /\ pc' = "idle"
             /\ loc' = NoLoc
             /\ result' = Left(FALSE, "construct", loc.base, loc.zf)
    /\ UNCHANGED <<archive_name, current_folder, zip_password, rows, fs, orig, ops, xvars>>

\* yield zf, None: the with-body returns or raises; either way the finally runs
OpenZipBody ==
    /\ pc = "open_zip_body"
    /\ \E body_ok \in BOOLEAN :
        /\ pc' = "open_zip_close"
        /\ loc' = [loc EXCEPT !.raised = ~body_ok]
    /\ UNCHANGED <<archive_name, current_folder, zip_password, rows, fs, result, orig, ops, xvars>>

\* finally: zf.close(), which writes the closing record in modes 'w' and 'a'
\* and may raise doing so; the container lets go of the file object it was
\* passed without closing it
OpenZipCloseContainer ==
    /\ pc = "open_zip_close"
    /\ \E io_ok \in BOOLEAN :
        IF io_ok \/ loc.mode = "r"
        THEN /\ pc' = "open_zip_close_base"
             /\ loc' = [loc EXCEPT !.zf = "closed"]
             /\ fs' = IF loc.mode = "r" THEN fs
                      ELSE [fs EXCEPT ![archive_name] =
                               AppendedZip([@ EXCEPT !.complete = (loc.mode = "w" \/ @)],
                                           archive_name,
                                           IF ZipReadable(archive_name) THEN @.comment ELSE <<>>)]
             /\ UNCHANGED result
        ELSE /\ pc' = "idle"
             /\ loc' = NoLoc
             /\ result' = Left(FALSE, "close", loc.base, "closed")
             /\ UNCHANGED fs
    /\ UNCHANGED <<archive_name, current_folder, zip_password, rows, orig, ops, xvars>>

\* finally: base.close(); the generator ends, re-raising what the body raised
OpenZipCloseBase ==
    /\ pc = "open_zip_close_base"
    /\ pc' = "idle"
    /\ loc' = NoLoc
    /\ result' = Left(~loc.raised, IF loc.raised THEN "body" ELSE "done", "closed", loc.zf)
    /\ UNCHANGED <<archive_name, current_folder, zip_password, rows, fs, orig, ops, xvars>>

\* a Zip-like archive on disk, whole or cut short by an earlier failed rewrite
HandlesInit ==
    /\ archive_name \in {Stem \o DotZip, Stem \o DotArc}
    /\ current_folder = <<>>
    /\ zip_password = NoPwd
    /\ \E f \in InitFiles(archive_name), whole \in BOOLEAN :
        /\ fs = [EmptyFs EXCEPT ![archive_name] = [f EXCEPT !.complete = whole]]
        /\ rows = UpdateFileList(fs[archive_name], archive_name, <<>>)
    /\ pc = "idle"
    /\ loc = NoLoc
    /\ result = NoResult
    /\ orig = [fs |-> fs, pwd |-> NoPwd]
    /\ ops = 0

HandlesNext ==
    \/ OpenZipEnter \/ OpenZipConstruct \/ OpenZipBody
    \/ OpenZipCloseContainer \/ OpenZipCloseBase

\* the paths a file dialog may hand to the frame: the three extensions, in
\* lower case and with upper-case letters, and a name that only ends in 'arc'
SelectNames ==
    {Stem \o DotZip, Stem \o DotArc, Stem \o DotTar,
     Stem \o <<46, 90, 73, 80>>, Stem \o <<46, 65, 82, 67>>, Stem \o <<46, 65, 114, 99>>,
     Stem \o <<46, 84, 65, 82>>, Stem \o <<97, 114, 99>>}

\* on_select_archive / on_create_archive: the path is there or not; when it is,
\* it holds an archive, whole or cut short
SelectInit ==
    /\ archive_name \in SelectNames
    /\ current_folder = <<>>
    /\ zip_password = NoPwd
    /\ \E f \in {[g EXCEPT !.complete = whole] : g \in InitFiles(archive_name), whole \in BOOLEAN}
                 \cup {NoFile} :
        /\ fs = [p \in SelectNames |-> IF p = archive_name THEN f ELSE NoFile]
        /\ rows = UpdateFileList(f, archive_name, <<>>)
    /\ pc = "idle"
    /\ loc = NoLoc
    /\ result = NoResult
    /\ orig = [fs |-> fs, pwd |-> NoPwd]
    /\ ops = 0

\* the password dialog asked for with an archive open or with none
PwdInit == SessInit \/ SessIdle

PwdNext ==
    \/ SetPasswordBegin \/ SetPasswordRead \/ SetPasswordOpen
    \/ SetPasswordWrite \/ SetPasswordMove

\* ------------------------------------------------------------------------
\* gui.py : search_in_archive, read_archive_comment
\* ------------------------------------------------------------------------
\* t in s : t occurs in s as a substring
Contains(s, t) ==
    \E k \in 0..(Len(s) - Len(t)) : SubSeq(s, k + 1, k + Len(t)) = t

\* what the user may type into the search box (lowered by on_search_file):
\* "a", "c", "comment", "zz"
SearchInputs == {<<97>>, <<99>>, <<99, 111, 109, 109, 101, 110, 116>>, <<122, 122>>}

\* the rows the loop of search_in_archive inserts for the entries of f
SearchRows(f, prefix, text) ==
    LET hits == SelectSeq(f.entries, LAMBDA e : Contains(Lower(e.name), text)) IN
    [i \in 1..Len(hits) |->
        Row(IF prefix # <<>> THEN DropFirst(hits[i].name, Len(prefix)) ELSE hits[i].name,
            Len(hits[i].data), FALSE)]

\* search_in_archive: the list is cleared, then filled with the matching entries
SearchInArchive ==
    /\ pc = "idle"
    /\ archive_name # <<>>
    /\ \E text \in SearchInputs :
        LET f == fs[archive_name]
            readable == IF IsZipBased(archive_name) THEN ZipParses(f, archive_name)
                        ELSE IsTarName(archive_name) /\ TarParses(f)
            found == IF readable THEN SearchRows(f, current_folder, text) ELSE <<>> IN
        /\ rows' = found
        /\ result' = [h |-> "search", ok |-> readable,
                      msg |-> IF found = <<>> THEN "not_found" ELSE "found", at |-> "done"]
    /\ UNCHANGED <<archive_name, current_folder, zip_password, fs, pc, loc, orig, ops, xvars>>

\* read_archive_comment on the file f found at name
ReadArchiveComment(f, name) ==
    IF name = <<>> THEN <<>>
    ELSE IF IsZipBased(name)
    THEN IF ZipParses(f, name) THEN f.comment ELSE <<>>
    ELSE IF IsTarName(name)
    THEN IF TarParses(f) /\ Sentinel \in NameSet(f.entries)
         THEN LastNamed(f.entries, Sentinel).data
         ELSE <<>>
    ELSE <<>>

\* an archive on which no comment was set yet
ViewInit ==
    /\ SessInit
    /\ Sentinel \notin NameSet(fs[archive_name].entries)
    /\ fs[archive_name].comment = <<>>

\* setting comments, and the views of the archive in between
ViewNext ==
    \/ CommentBegin \/ CommentZipSave
    \/ CommentTarOpen \/ CommentTarWrite \/ CommentTarReplace
    \/ RefreshView \/ OnItemDoubleClick \/ SearchInArchive

\* ------------------------------------------------------------------------
\* gui.py : reading and extracting, prompt_zip_password
\* ------------------------------------------------------------------------
\* prompt_zip_password returns True on any text, the empty one included
PromptAcceptsEmpty(pressed_ok, pwd) == pressed_ok

\* prompt_zip_password: ID_OK pressed and "if pwd:"
PromptAccepts(pressed_ok, pwd) == pressed_ok /\ pwd # NoPwd

\* the exceptions that are RuntimeError: password required, bad password, and
\* NotImplementedError, its subclass
RuntimeErrors == {"password_required", "bad_password", "not_implemented"}

\* archive.read(name) / archive.extract(name) for one name of the container f
EntryOutcome(f, name, pwd) ==
    IF name \notin NameSet(f.entries) THEN "key_error"
    ELSE IF EndsWith(name, <<Slash>>) \/ LastNamed(f.entries, name).isdir THEN "ok"
    ELSE ReadOutcome(LastNamed(f.entries, name), pwd)

\* a loop over names that stops at the first call that raises
RECURSIVE FirstRaised(_, _, _, _)
FirstRaised(f, names, i, pwd) ==
    IF i > Len(names) THEN "ok"
    ELSE IF EntryOutcome(f, names[i], pwd) # "ok" THEN EntryOutcome(f, names[i], pwd)
    ELSE FirstRaised(f, names, i + 1, pwd)

\* one run of _read / _do_extract / _do_extract_selected over names
Attempt(names, pwd, io_ok) ==
    LET f == fs[archive_name] IN
    IF ~io_ok THEN "os_error"
    ELSE IF IsZipBased(archive_name)
    THEN IF ZipParses(f, archive_name) THEN FirstRaised(f, names, 1, pwd) ELSE "bad_zip"
    ELSE IF IsTarName(archive_name)
    THEN IF TarParses(f) THEN FirstRaised(f, names, 1, NoPwd) ELSE "read_error"
    ELSE "ok"

Try(pwd, out) == [pwd |-> pwd, out |-> out]
NoPrompt == [shown |-> FALSE, ok |-> FALSE, pwd |-> NoPwd]
Prompted(pressed_ok, pwd) == [shown |-> TRUE, ok |-> pressed_ok, pwd |-> pwd]

\* the handler returns, with the attempts it made and the prompt it showed
Done(h, ok, msg, what, tries, prompt) ==
    /\ pc' = "idle"
    /\ loc' = NoLoc
    /\ result' = [h |-> h, ok |-> ok, msg |-> msg, at |-> "done",
                  what |-> what, tries |-> tries, prompt |-> prompt]

\* the handler goes on to prompt_zip_password
ToPrompt(h, what, tries) ==
    /\ pc' = h \o "_prompt"
    /\ loc' = [h |-> h, what |-> what, tries |-> tries]
    /\ UNCHANGED result

\* on_item_double_click on a file row: data = _read(self.zip_password)
ReadBegin ==
    /\ pc = "idle"
    /\ archive_name # <<>>
    /\ \E i \in 1..Len(rows), io_ok \in BOOLEAN :
        LET what == <<PathJoin(current_folder, rows[i].name)>>
            out == Attempt(what, zip_password, io_ok)
            tries == <<Try(zip_password, out)>> IN
        /\ rows[i].name # UpRow
        /\ ~EndsWith(rows[i].name, <<Slash>>)
        /\ IF out = "ok" THEN Done("read", TRUE, "opened", what, tries, NoPrompt)
           ELSE IF out \in RuntimeErrors /\ IsZipBased(archive_name)
           THEN ToPrompt("read", what, tries)
           ELSE Done("read", FALSE, "uncaught", what, tries, NoPrompt)
    /\ UNCHANGED <<archive_name, current_folder, zip_password, rows, fs, orig, ops, xvars>>

\* except RuntimeError: if self.prompt_zip_password(): data = _read(self.zip_password)
ReadPrompt ==
    /\ pc = "read_prompt"
    /\ \E pressed_ok \in BOOLEAN, pwd \in Passwords, io_ok \in BOOLEAN :
        IF PromptAccepts(pressed_ok, pwd)
        THEN LET out == Attempt(loc.what, pwd, io_ok)
                 tries == Append(loc.tries, Try(pwd, out)) IN
             /\ zip_password' = pwd
             /\ IF out = "ok"
                THEN Done("read", TRUE, "opened", loc.what, tries, Prompted(pressed_ok, pwd))
                ELSE Done("read", FALSE, IF out \in RuntimeErrors THEN "protected" ELSE "uncaught",
                          loc.what, tries, Prompted(pressed_ok, pwd))
        ELSE /\ Done("read", FALSE, "protected", loc.what, loc.tries, Prompted(pressed_ok, pwd))
             /\ UNCHANGED zip_password
    /\ UNCHANGED <<archive_name, current_folder, rows, fs, orig, ops, xvars>>

\* the names _do_extract goes through: every entry but the comment sentinel
ExtractAllNames(f) ==
    IF f = NoFile THEN <<>>
    ELSE Names(SelectSeq(f.entries, LAMBDA e : e.name # Sentinel))

\* on_extract_all: the folder dialog, then _do_extract(None)
ExtractAllBegin ==
    /\ pc = "idle"
    /\ archive_name # <<>>
    /\ \E chosen \in BOOLEAN, io_ok \in BOOLEAN :
        LET what == ExtractAllNames(fs[archive_name])
            out == Attempt(what, NoPwd, io_ok)
            tries == <<Try(NoPwd, out)>> IN
        IF ~chosen THEN Done("extract_all", TRUE, "cancelled", what, <<>>, NoPrompt)
        ELSE IF out = "ok" THEN Done("extract_all", TRUE, "extracted", what, tries, NoPrompt)
        ELSE IF out \in RuntimeErrors THEN ToPrompt("extract_all", what, tries)
        ELSE Done("extract_all", FALSE, IF out = "bad_zip" THEN "bad_zip" ELSE "uncaught",
                  what, tries, NoPrompt)
    /\ UNCHANGED <<archive_name, current_folder, zip_password, rows, fs, orig, ops, xvars>>

\* except RuntimeError: if self.prompt_zip_password(): _do_extract(self.zip_password)
ExtractAllPrompt ==
    /\ pc = "extract_all_prompt"
    /\ \E pressed_ok \in BOOLEAN, pwd \in Passwords, io_ok \in BOOLEAN :
        IF PromptAccepts(pressed_ok, pwd)
        THEN LET out == Attempt(loc.what, pwd, io_ok)
                 tries == Append(loc.tries, Try(pwd, out)) IN
             /\ zip_password' = pwd
             /\ Done("extract_all", out = "ok", IF out = "ok" THEN "extracted" ELSE "error",
                     loc.what, tries, Prompted(pressed_ok, pwd))
        ELSE /\ Done("extract_all", FALSE, "protected", loc.what, loc.tries,
                     Prompted(pressed_ok, pwd))
             /\ UNCHANGED zip_password
    /\ UNCHANGED <<archive_name, current_folder, rows, fs, orig, ops, xvars>>

\* the selected rows in list order, as paths
RECURSIVE SelectedNames(_, _)
SelectedNames(sel, i) ==
    IF i > Len(rows) THEN <<>>
    ELSE (IF i \in sel THEN <<PathJoin(current_folder, rows[i].name)>> ELSE <<>>)
             \o SelectedNames(sel, i + 1)

\* on_extract_selected: the guards, the folder dialog, _do_extract_selected(None)
ExtractSelectedBegin ==
    /\ pc = "idle"
    /\ archive_name # <<>>
    /\ \E sel \in SUBSET (1..Len(rows)), chosen \in BOOLEAN, io_ok \in BOOLEAN :
        LET what == SelectedNames(sel, 1)
            out == Attempt(what, NoPwd, io_ok)
            tries == <<Try(NoPwd, out)>> IN
        IF sel = {} THEN Done("extract_selected", FALSE, "none_selected", what, <<>>, NoPrompt)
        ELSE IF ~chosen THEN Done("extract_selected", TRUE, "cancelled", what, <<>>, NoPrompt)
        ELSE IF out = "ok" THEN Done("extract_selected", TRUE, "extracted", what, tries, NoPrompt)
        ELSE IF out \in RuntimeErrors THEN ToPrompt("extract_selected", what, tries)
        ELSE Done("extract_selected", FALSE, IF out = "bad_zip" THEN "bad_zip" ELSE "uncaught",
                  what, tries, NoPrompt)
    /\ UNCHANGED <<archive_name, current_folder, zip_password, rows, fs, orig, ops, xvars>>

\* except RuntimeError: if self.prompt_zip_password(): _do_extract_selected(self.zip_password)
ExtractSelectedPrompt ==
    /\ pc = "extract_selected_prompt"
    /\ \E pressed_ok \in BOOLEAN, pwd \in Passwords, io_ok \in BOOLEAN :
        IF PromptAccepts(pressed_ok, pwd)
        THEN LET out == Attempt(loc.what, pwd, io_ok)
                 tries == Append(loc.tries, Try(pwd, out)) IN
             /\ zip_password' = pwd
             /\ Done("extract_selected", out = "ok", IF out = "ok" THEN "extracted" ELSE "error",
                     loc.what, tries, Prompted(pressed_ok, pwd))
        ELSE /\ Done("extract_selected", FALSE, "protected", loc.what, loc.tries,
                     Prompted(pressed_ok, pwd))
             /\ UNCHANGED zip_password
    /\ UNCHANGED <<archive_name, current_folder, rows, fs, orig, ops, xvars>>

\* opening and extracting, with the folder rows to move about
ReadNext ==
    \/ ReadBegin \/ ReadPrompt
    \/ ExtractAllBegin \/ ExtractAllPrompt
    \/ ExtractSelectedBegin \/ ExtractSelectedPrompt
    \/ OnItemDoubleClick

\* ------------------------------------------------------------------------
\* arc_utils.py : open_zip over the bytes of the file (x_base holds the bytes
\* stored at archive_name)
\* ------------------------------------------------------------------------
\* fileobj.read() of the whole file
FileObjRead(path, mode, stored) ==
    IF OpenZipWraps(path, mode) THEN XorBytes(stored, ARC_KEY) ELSE stored

\* fileobj.seek(pos); fileobj.write(data); fileobj.truncate()
FileObjWriteAt(path, mode, stored, pos, data) ==
    BaseWriteAt(SubSeq(stored, 1, pos), pos,
                IF OpenZipWraps(path, mode) THEN XorBytes(data, ARC_KEY) ELSE data)

\* the container as ZipFile lays it out: one record per entry (a signature,
\* the name and the payload, each with its length), then the closing record
\* (a signature and the number of entries)
EntryRecord(e) == <<80, Len(e.name)>> \o e.name \o <<Len(e.data)>> \o e.data
EndRecord(n) == <<69, n>>

\* ZipFile(fileobj, 'r' or 'a') reading the records back: the entries and the
\* offset of the closing record, or not ok when the bytes do not parse
RECURSIVE ParseFrom(_, _, _)
ParseFrom(b, i, acc) ==
    LET bad == [ok |-> FALSE, entries |-> <<>>, dir |-> 0] IN
    IF i > Len(b) THEN bad
    ELSE IF b[i] = 69
    THEN IF i + 1 = Len(b) /\ b[i + 1] = Len(acc)
         THEN [ok |-> TRUE, entries |-> acc, dir |-> i - 1]
         ELSE bad
    ELSE IF b[i] = 80 /\ i + 1 <= Len(b)
    THEN LET nl == b[i + 1]
             dpos == i + 2 + nl IN
         IF dpos <= Len(b) /\ dpos + b[dpos] <= Len(b)
         THEN ParseFrom(b, dpos + b[dpos] + 1,
                        Append(acc, PlainEntry(SubSeq(b, i + 2, i + 1 + nl),
                                               SubSeq(b, dpos + 1, dpos + b[dpos]))))
         ELSE bad
    ELSE bad

ParseZip(b) == ParseFrom(b, 1, <<>>)

\* on_create_archive, zip branch: with open_zip(name, 'w'): pass
CreateArchiveBytes ==
    /\ archive_name = <<>>
    /\ \E name \in {Stem \o DotZip, Stem \o DotArc} :
        /\ archive_name' = name
        /\ x_base' = FileObjWriteAt(name, "w", <<>>, 0, EndRecord(0))
    /\ loc' = [h |-> "written", entries |-> <<>>]
    /\ UNCHANGED <<current_folder, zip_password, rows, fs, pc, result, orig, ops,
                   x_key, x_pos, x_plain, x_ppos, x_ret>>

\* the entries the user may add: a folder marker, and files
AddPool ==
    {PlainEntry(NameDir, <<>>)}
    \cup {PlainEntry(n, d) : n \in {NameInner, NameTop}, d \in {<<>>, <<7>>, <<0, 255>>}}

\* on_add_file_or_folder / on_create_folder, zip branch:
\* with open_zip(name, 'a'): archive.write(...) or archive.writestr(..., b'')
AddEntryBytes ==
    /\ archive_name # <<>>
    /\ result.h = "none"
    /\ Len(loc.entries) < MaxEntries
    /\ \E e \in AddPool :
        LET old == ParseZip(FileObjRead(archive_name, "a", x_base)) IN
        /\ e.name \notin NameSet(loc.entries)
        /\ old.ok
        /\ x_base' = FileObjWriteAt(archive_name, "a", x_base, old.dir,
                                    EntryRecord(e) \o EndRecord(Len(old.entries) + 1))
        /\ loc' = [loc EXCEPT !.entries = Append(@, e)]
    /\ UNCHANGED <<archive_name, current_folder, zip_password, rows, fs, pc, result, orig, ops,
                   x_key, x_pos, x_plain, x_ppos, x_ret>>

\* with open_zip(name, 'r'): infolist() and read() of every entry
ReadBackBytes ==
    /\ archive_name # <<>>
    /\ result.h = "none"
    /\ LET got == ParseZip(FileObjRead(archive_name, "r", x_base)) IN
        result' = [h |-> "read_back", ok |-> got.ok, msg |-> "none", at |-> "done",
                   entries |-> got.entries]
    /\ UNCHANGED <<archive_name, current_folder, zip_password, rows, fs, pc, loc, orig, ops, xvars>>

RoundTripNext == CreateArchiveBytes \/ AddEntryBytes \/ ReadBackBytes

\* ------------------------------------------------------------------------
\* Specifications
\* ------------------------------------------------------------------------
Init == SessInit /\ XorIdle
Next == SessNext
Spec == Init /\ [][Next]_vars

InitCipher == XorInit /\ SessIdle
SpecCipher == InitCipher /\ [][CipherNext]_vars

InitXor == XorInitSampled /\ SessIdle
SpecXor == InitXor /\ [][XorNext]_vars

InitRoundTrip == SessIdle /\ XorIdle
SpecRoundTrip == InitRoundTrip /\ [][RoundTripNext]_vars

InitHandles == HandlesInit /\ XorIdle
SpecHandles == InitHandles /\ [][HandlesNext]_vars

InitSelect == SelectInit /\ XorIdle
SpecSelect == InitSelect /\ [][HandlesNext]_vars

InitRead == SessInit /\ XorIdle
SpecRead == InitRead /\ [][ReadNext]_vars

InitEdit == EditInit /\ XorIdle
SpecEdit == InitEdit /\ [][EditNext]_vars

InitNav == NavInit /\ XorIdle
SpecNav == InitNav /\ [][NavNext]_vars

InitArc == ArcInit /\ XorIdle
SpecArc == InitArc /\ [][ArcNext]_vars

InitPwd == PwdInit /\ XorIdle
SpecPwd == InitPwd /\ [][PwdNext]_vars

InitView == ViewInit /\ XorIdle
SpecView == InitView /\ [][ViewNext]_vars

InitProj == ProjInit /\ XorIdle
SpecProj == InitProj /\ [][RefreshView]_vars

\* ------------------------------------------------------------------------
\* Properties
\* ------------------------------------------------------------------------

\* ---- the rewrite transactions ----
Backing == fs[archive_name]
BackingBefore == orig.fs[archive_name]
Failed(h) == pc = "idle" /\ result.h = h /\ ~result.ok

\* C1 as stated: delete atomicity. After a delete that failed, the backing file
\* holds the original entry list and bytes.
DeleteAtomic == Failed("delete") => Backing = BackingBefore

\* C2 as stated: rename atomicity. After a rename that failed, the backing file
\* is the original one.
RenameAtomic == Failed("rename") => Backing = BackingBefore

IntactBeforeReplace == pc # "idle" => Backing = BackingBefore

\* C5 as stated: after a failed transaction the temporary file does not exist.
TempDiscarded ==
    (\E h \in {"delete", "rename", "comment", "set_password"} : Failed(h))
        => fs[TmpOf(archive_name)] = NoFile

\* C6: cipher involution. Every stored byte is an 8-bit value, transforming
\* any byte twice with the key gives the byte back, and what a read returns
\* at an offset is the byte that was written there through the wrapper.
CipherInvolution ==
    /\ \A i \in 1..Len(x_base) :
        /\ x_base[i] \in Bytes
        /\ XorByte(XorByte(x_base[i], x_key), x_key) = x_base[i]
    /\ x_ret.op = "read" =>
        /\ \A i \in 1..Len(x_ret.val) :
              x_plain[x_ret.at + i] # Hole => x_ret.val[i] = x_plain[x_ret.at + i]
        /\ XorBytes(XorBytes(x_ret.val, x_key), x_key) = x_ret.val

\* C6 witness: a byte was written and read back under a key that changes it
CipherInvolutionWitness ==
    /\ x_ret.op = "read"
    /\ Len(x_ret.val) = 1
    /\ x_key # 0
    /\ x_plain = x_ret.val
    /\ x_base # x_plain

\* C7: position independence. Whatever the order and chunking of the calls,
\* the byte stored at an offset is the byte written there XOR the key, the
\* positions are those of a raw stream driven by the same calls, and
\* transforming two slices and joining them is transforming the whole.
PositionIndependent ==
    /\ Len(x_base) = Len(x_plain)
    /\ \A i \in 1..Len(x_plain) :
          x_plain[i] # Hole => x_base[i] = XorByte(x_plain[i], x_key)
    /\ x_pos = x_ppos
    /\ x_ret.op = "tell" => x_ret.n = x_ppos
    /\ (x_ret.op = "seek" /\ x_ret.n >= 0) => x_ret.n = x_ppos
    /\ (\A i \in 1..Len(x_plain) : x_plain[i] # Hole) =>
          \A j \in 0..Len(x_plain) :
              XorBytes(SubSeq(x_plain, 1, j), x_key)
                  \o XorBytes(SubSeq(x_plain, j + 1, Len(x_plain)), x_key) = x_base

\* C7 witness: after a seek back, a chunk overwrote the start of a longer file
PositionIndependentWitness ==
    /\ x_ret.op = "write"
    /\ x_ret.at = 0
    /\ x_ret.n = 2
    /\ Len(x_base) = 3
    /\ x_key # 0
    /\ \A i \in 1..Len(x_plain) : x_plain[i] # Hole

\* C8: container round-trip. The entries listed and read back through
\* open_zip are the entries written to the fresh container: same paths, same
\* bytes, same directory flags, in a plain and in an obfuscated container.
RoundTrip ==
    result.h = "read_back" =>
        /\ result.ok
        /\ Len(result.entries) = Len(loc.entries)
        /\ \A i \in 1..Len(loc.entries) :
            /\ result.entries[i].name = loc.entries[i].name
            /\ result.entries[i].data = loc.entries[i].data
            /\ EndsWith(result.entries[i].name, <<Slash>>)
                  = EndsWith(loc.entries[i].name, <<Slash>>)

\* C8 witness: an obfuscated container with a folder marker and a file with
\* bytes was read back, and its stored bytes are not the plain layout
RoundTripWitness ==
    /\ result.h = "read_back"
    /\ IsArc(archive_name)
    /\ Len(loc.entries) = 2
    /\ \E i, j \in 1..2 :
        /\ EndsWith(loc.entries[i].name, <<Slash>>)
        /\ loc.entries[j].data = <<0, 255>>
    /\ ~ParseZip(x_base).ok

\* ---- the projection, stated from the entry paths ----

\* the path of an entry: a directory member of a TAR is the path ending in '/'
EntryPath(e) == IF e.isdir THEN e.name \o <<Slash>> ELSE e.name

\* the remainders of the entries under the prefix
Remainders(entries, prefix) ==
    {DropFirst(EntryPath(entries[i]), Len(prefix)) :
        i \in {j \in 1..Len(entries) : StartsWith(EntryPath(entries[j]), prefix)}} \ {<<>>}

HasSlash(s) == HasSlashIn(s)

\* segment + '/' for the first segment of a remainder that contains '/'
FirstSegment(r) ==
    {SubSeq(r, 1, k) : k \in {m \in 1..Len(r) : r[m] = Slash /\ \A j \in 1..(m - 1) : r[j] # Slash}}

\* the direct children of the prefix, as <<display name, is folder>>
DirectChildren(entries, prefix) ==
    {<<rel, FALSE>> : rel \in {r \in Remainders(entries, prefix) : ~HasSlash(r)}}
    \cup {<<seg, TRUE>> : seg \in UNION {FirstSegment(r) : r \in Remainders(entries, prefix)}}

\* the rows below the synthetic up row
Body == IF current_folder # <<>> /\ rows # <<>> THEN Tail(rows) ELSE rows

Viewed == result.h = "update_file_list"
Shown == fs[archive_name].entries

\* C9: projection correctness. The rows below the up row are exactly the direct
\* children of the prefix, one row each.
ProjectionCorrect ==
    Viewed =>
        /\ {<<Body[i].name, Body[i].is_dir>> : i \in 1..Len(Body)}
              = DirectChildren(Shown, current_folder)
        /\ \A i, j \in 1..Len(Body) : Body[i].name = Body[j].name => i = j
        /\ (Shown = ExampleEntries /\ current_folder = <<>>) =>
              [i \in 1..Len(rows) |-> rows[i].name]
                  = << <<97, 47>>, <<101, 46, 116, 120, 116>> >>
        /\ (Shown = ExampleEntries /\ current_folder = <<97, 47>>) =>
              [i \in 1..Len(Body) |-> Body[i].name]
                  = << <<99, 47>>, <<98, 46, 116, 120, 116>> >>

\* C9 witness: the example list viewed inside "a/", where two entries fall under
\* the prefix and one does not
ProjectionCorrectWitness ==
    /\ Viewed
    /\ Shown = ExampleEntries
    /\ current_folder = <<97, 47>>
    /\ Len(Body) = 2

\* folders before files, each kind in case-insensitive order of display name
BodyOrdered ==
    \A i, j \in 1..Len(Body) :
        i < j =>
            /\ Body[j].is_dir => Body[i].is_dir
            /\ Body[i].is_dir = Body[j].is_dir =>
                  ~StrLess(Lower(Body[j].name), Lower(Body[i].name))

IsUpRow(r) == r = Row(UpRow, -1, FALSE)

CommentWasSet ==
    /\ IsTarName(archive_name)
    /\ TarReadable(archive_name)
    /\ Sentinel \in NameSet(Backing.entries)

\* C11 as stated: once a comment was set on a TAR archive, no row of a view
\* built by update_file_list shows the sentinel path.
SentinelNotListed ==
    (Viewed /\ CommentWasSet) => \A i \in 1..Len(rows) : rows[i].name # Sentinel

\* C13 as stated: the rows of a search never include the sentinel entry.
SentinelNotFound ==
    result.h = "search" => \A i \in 1..Len(rows) : rows[i].name # Sentinel

\* the entries of a file other than the comment sentinel
OtherEntries(f) == SelectSeq(f.entries, LAMBDA e : e.name # Sentinel)

\* C12 as stated: comment round-trip. When save_archive_comment has returned
\* normally and on_comment reports the comment saved, read_archive_comment
\* returns the text just set and the other entries are what they were.
CommentRoundTrip ==
    [][(pc \in {"comment_zip", "comment_tar_replace"} /\ pc' = "idle" /\ result'.ok) =>
          /\ ReadArchiveComment(fs'[archive_name], archive_name) = loc.text
          /\ OtherEntries(fs'[archive_name]) = OtherEntries(fs[archive_name])]_vars

\* ---- rename and delete targets ----

\* the path an entry is expected under after the folder old was renamed to new
Substituted(path, old, new) ==
    IF StartsWith(path, old) THEN new \o DropFirst(path, Len(old)) ELSE path

\* C14 as stated: rename prefix substitution. A folder rename that reports
\* success has rewritten every path under the old prefix, the directory marker
\* included, left the other paths alone and kept the bytes of every file.
RenamePrefixSubstitution ==
    [][(pc \in {"rename_zip_write", "rename_tar_replace"} /\ pc' = "idle"
            /\ result'.ok /\ loc.is_dir) =>
          LET before == orig.fs[archive_name].entries
              after == fs'[archive_name].entries IN
          /\ Len(after) = Len(before)
          /\ \A i \in 1..Len(before) :
                /\ EntryPath(after[i])
                      = Substituted(EntryPath(before[i]), loc.old_full, loc.new_full)
                /\ ~EndsWith(EntryPath(before[i]), <<Slash>>)
                      => after[i].data = before[i].data]_vars

\* C15 as stated: no rename that reports success leaves two entries with the
\* same path.
RenameNoDuplicate ==
    (result.h = "rename" /\ result.msg = "renamed") => DistinctNames(Backing.entries)

\* C16 as stated: a delete or rename that has gone past its read phase, to
\* opening or writing its output, has found its target among the entries.
TargetFound ==
    /\ pc \in {"delete_zip_open", "delete_zip_write", "delete_tar_write", "delete_tar_replace"}
          => loc.selected \subseteq NameSet(BackingBefore.entries)
    /\ pc \in {"rename_zip_open", "rename_zip_write", "rename_tar_write", "rename_tar_replace"}
          => loc.old_full \in NameSet(BackingBefore.entries)

\* ---- passwords ----

\* C17 as stated: password round-trip. After a change to a non-empty password
\* that reports success, every file entry read with that password gives its
\* original bytes, and read with no password or another one it fails with
\* password-required or wrong-password.
PasswordRoundTrip ==
    (result.h = "set_password" /\ result.msg = "changed" /\ zip_password # NoPwd) =>
        \A i \in 1..Len(Backing.entries) :
            LET e == Backing.entries[i] IN
            ~EndsWith(e.name, <<Slash>>) =>
                /\ ReadOutcome(e, zip_password) = "ok"
                /\ e.data = LastNamed(BackingBefore.entries, e.name).data
                /\ \A p \in Passwords \ {zip_password} :
                      ReadOutcome(e, p) \in {"password_required", "bad_password"}

\* C18 as stated: a change to a non-empty password written without the AES
\* writer is not reported as a plain success.
CapabilityWarned ==
    (/\ result.h = "set_password" /\ result.ok /\ result.at = "done"
     /\ zip_password # NoPwd
     /\ \E i \in 1..Len(Backing.entries) : ~Backing.entries[i].aes)
        => result.msg # "changed"

\* C19: a password request on a TAR archive, or with no archive open, is
\* rejected: the handler never gets to reading or writing a file, and the
\* files and the cached password are what they were.
UnsupportedRejected ==
    (archive_name = <<>> \/ IsTarName(archive_name)) =>
        /\ pc \notin {"set_password_read", "set_password_open",
                      "set_password_write", "set_password_move"}
        /\ result.h = "set_password" =>
              /\ ~result.ok
              /\ result.msg \in {"no_archive", "zip_only"}
              /\ fs = orig.fs
              /\ zip_password = orig.pwd

\* C19 witness: the request was made on a TAR archive with entries and rejected
UnsupportedRejectedWitness ==
    /\ IsTarName(archive_name)
    /\ result.h = "set_password"
    /\ result.msg = "zip_only"
    /\ Len(fs[archive_name].entries) = 2

\* ---- handles ----

\* C20 as stated: handle release. However open_zip is left, neither the
\* container nor the underlying file is still open.
HandleReleased ==
    (pc = "idle" /\ result.h = "open_zip") =>
        /\ result.base # "open"
        /\ result.zf # "open"

\* ---- the selection rule of open_zip ----
\* the last four characters are '.', then 'a', 'r', 'c' in either case
ArcSuffix(path) ==
    LET n == Len(path) IN
    /\ n >= 4
    /\ path[n - 3] = Dot
    /\ path[n - 2] \in {97, 65}
    /\ path[n - 1] \in {114, 82}
    /\ path[n] \in {99, 67}

\* the last four characters are '.', then 't', 'a', 'r' in either case
TarSuffix(path) ==
    LET n == Len(path) IN
    /\ n >= 4
    /\ path[n - 3] = Dot
    /\ path[n - 2] \in {116, 84}
    /\ path[n - 1] \in {97, 65}
    /\ path[n] \in {114, 82}

\* C21: selection rule. Whenever open_zip has opened its base file, the stream
\* handed to the container is the XOR wrapper if and only if the path ends with
\* '.arc' in any letter case, in every mode, and the path is not a '.tar' one;
\* mode 'w' leaves an empty file, mode 'a' leaves an existing file as it was and
\* creates an empty one where there was none, mode 'r' leaves the file alone.
SelectionRule ==
    [][(pc = "idle" /\ pc' = "open_zip_construct") =>
          /\ loc'.wrapped <=> ArcSuffix(archive_name)
          /\ ~TarSuffix(archive_name)
          /\ loc'.mode = "w" =>
                /\ fs'[archive_name] # NoFile
                /\ fs'[archive_name].entries = <<>>
                /\ fs'[archive_name].xored = ArcSuffix(archive_name)
          /\ (loc'.mode = "a" /\ fs[archive_name] # NoFile) => fs' = fs
          /\ (loc'.mode = "a" /\ fs[archive_name] = NoFile) =>
                /\ fs'[archive_name] # NoFile
                /\ fs'[archive_name].entries = <<>>
          /\ loc'.mode = "r" => fs' = fs]_vars

\* open_zip holds an '.ARC' path with entries open for appending, wrapped
SelectionRuleWitness ==
    /\ pc = "open_zip_construct"
    /\ loc.mode = "a"
    /\ loc.wrapped
    /\ archive_name = Stem \o <<46, 65, 82, 67>>
    /\ fs[archive_name] # NoFile
    /\ fs[archive_name].entries # <<>>

\* ---- what the handlers report ----
\* C22 as stated: a comment-set that did not take effect (the archive does not
\* read back the text that was to be saved) ends with an error reported, never
\* with the "saved" dialog.
FailureReported ==
    [][(pc # "idle" /\ pc' = "idle" /\ loc.h = "comment"
            /\ ReadArchiveComment(fs'[archive_name], archive_name) # loc.text)
          => ~result'.ok]_vars

\* ---- the password prompt and the retry ----
\* the attempts and the prompt of the read or extract handler that is running
\* or has just returned
Tries ==
    IF pc \in {"read_prompt", "extract_all_prompt", "extract_selected_prompt"} THEN loc.tries
    ELSE IF result.h \in {"read", "extract_all", "extract_selected"} THEN result.tries
    ELSE <<>>

Mutated ==
    /\ pc = "idle"
    /\ result.ok
    /\ result.msg \in {"created", "added", "dropped", "folder_created", "deleted", "renamed"}

\* C24: after every successful create, add, drop, create-folder, delete or
\* rename the rows shown are the projection of the archive's present entries
\* at current_folder: the up row inside a folder, then one row per direct
\* child.
ViewRebuilt ==
    (Mutated /\ Backing # NoFile) =>
        /\ {<<Body[i].name, Body[i].is_dir>> : i \in 1..Len(Body)}
              = DirectChildren(Backing.entries, current_folder)
        /\ \A i, j \in 1..Len(Body) : Body[i].name = Body[j].name => i = j
        /\ current_folder # <<>> => (rows # <<>> /\ IsUpRow(rows[1]))

\* a file was added inside the folder "a/" and is listed there below the up row
ViewRebuiltWitness ==
    /\ Mutated
    /\ result.msg = "added"
    /\ current_folder = <<97, Slash>>
    /\ Len(rows) = 2
    /\ rows[2].name = <<66>>

\* ---- the entry paths of a created archive ----
\* C25 as stated: path uniqueness. Whatever was created, added, dropped,
\* deleted and renamed since the archive was created, no two entries of the
\* archive have the same path.
PathsUnique ==
    (pc = "idle" /\ archive_name # <<>> /\ Backing # NoFile) =>
        \A i, j \in 1..Len(Backing.entries) :
            Backing.entries[i].name = Backing.entries[j].name => i = j

\* ---- what a delete leaves ----
\* the entries as <<path, bytes>>, in order
PathsAndBytes(entries) ==
    [i \in 1..Len(entries) |-> <<EntryPath(entries[i]), entries[i].data>>]

\* C26 as stated: delete frame. On the step that ends a successful delete of
\* the selected paths, the entry list is the original one without the entries
\* whose path is selected, in the original order and with the original bytes,
\* and every surviving path ending in '/' has no bytes.
DeleteFrame ==
    [][(pc \in {"delete_zip_write", "delete_tar_replace"} /\ pc' = "idle" /\ result'.ok) =>
          /\ PathsAndBytes(fs'[archive_name].entries)
                = PathsAndBytes(SelectSeq(BackingBefore.entries,
                                          LAMBDA e : EntryPath(e) \notin loc.selected))
          /\ \A i \in 1..Len(fs'[archive_name].entries) :
                EndsWith(EntryPath(fs'[archive_name].entries[i]), <<Slash>>)
                    => fs'[archive_name].entries[i].data = <<>>]_vars

\* C29 as stated: on the step that ends a successful delete, no entry row of
\* the rebuilt view at the same current_folder is one of the rows that were
\* selected, file rows and folder rows alike (the up row is not an entry row).
DeletedRowGone ==
    [][(pc \in {"delete_zip_write", "delete_tar_replace"} /\ pc' = "idle" /\ result'.ok) =>
          \A i \in 1..Len(rows') :
              ~IsUpRow(rows'[i]) => PathJoin(current_folder, rows'[i].name) \notin loc.selected]_vars

\* ---- navigation ----
\* a folder path without its last segment: "a/b/" gives "a/", "a/" gives ""
WithoutLastSegment(cf) ==
    IF cf = <<>> THEN <<>>
    ELSE LET body == SubSeq(cf, 1, Len(cf) - 1)
             cuts == {i \in 1..Len(body) : body[i] = Slash}
         IN IF cuts = {} THEN <<>>
            ELSE SubSeq(cf, 1, CHOOSE i \in cuts : \A j \in cuts : j <= i)

\* the step enters the folder of one of the folder rows shown, and the up row
\* would lead back
EntersFolder ==
    \E i \in 1..Len(rows) :
        /\ EndsWith(rows[i].name, <<Slash>>)
        /\ current_folder' = current_folder \o rows[i].name
        /\ ParentFolder(current_folder') = current_folder

\* the step follows the up row
LeavesFolder ==
    /\ \E i \in 1..Len(rows) : rows[i].name = UpRow
    /\ current_folder' = WithoutLastSegment(current_folder)

\* an archive was selected or created on the step
Resets == result'.h \in {"select", "create"} /\ result'.at # "input"

\* C27 as stated: navigation. current_folder is "" or ends with '/'; a
\* selected or created archive resets it to ""; every other change of it
\* appends the name of a folder row shown, after which '..' restores it, or
\* removes exactly its last segment, so that '..' at the root leaves it "".
NavigationRule ==
    [][/\ current_folder' = <<>> \/ EndsWith(current_folder', <<Slash>>)
       /\ (Resets /\ result' # result) => current_folder' = <<>>
       /\ current_folder' # current_folder =>
             \/ EntersFolder
             \/ LeavesFolder
             \/ Resets /\ current_folder' = <<>>]_vars

\* ---- the comment across the other mutations ----
\* the comment sentinel is one of the paths the handler at work was aimed at
SentinelTargeted ==
    IF loc.h = "delete" THEN Sentinel \in loc.selected
    ELSE IF loc.h = "rename" THEN Sentinel \in {loc.old_full, loc.new_full}
    ELSE FALSE

\* C28 as stated: on the step that ends a successful delete, rename or
\* password change that was not aimed at the comment sentinel,
\* read_archive_comment returns what it returned before the handler began,
\* for Zip-like and TAR archives alike.
CommentPreserved ==
    [][(pc # "idle" /\ pc' = "idle" /\ result'.ok
            /\ loc.h \in {"delete", "rename", "set_password"} /\ ~SentinelTargeted)
          => ReadArchiveComment(fs'[archive_name], archive_name)
                = ReadArchiveComment(BackingBefore, archive_name)]_vars

\* ---- the stored form of an '.arc' archive ----
\* the last handler wrote to the archive and reported success
Wrote ==
    /\ pc = "idle"
    /\ result.ok
    /\ result.at = "done"
    /\ result.h \in {"add", "drop", "create_folder", "delete", "rename", "comment", "set_password"}

\* C30 as stated: obfuscation. After every successful add, drop, create
\* folder, delete, rename, set comment and set_archive_password on an archive
\* whose path ends in '.arc', the file at that path is stored in the
\* XOR-transformed form and open_zip reads it as a container.
StaysObfuscated ==
    (Wrote /\ IsArc(archive_name)) =>
        /\ Backing # NoFile
        /\ Backing.xored
        /\ ZipParses(Backing, archive_name)

====
